---- MODULE Spec2Model ----
(***************************************************************************)
(* A model of enyo's observable property graph: the dotted-path resolver   *)
(* (enyo.getPath / enyo.setPath of the language utilities) and the binding *)
(* lifecycle mixin (enyo.BindingSupport).                                  *)
(*                                                                         *)
(* JavaScript values are records [t, v]: t is the type tag and v a number, *)
(* a boolean encoded as 0/1, a string tag, or the heap id of an object.    *)
(* Strings that are paths or property keys are sequences of one-character  *)
(* strings, so that splitting and stripping are computed, not assumed.     *)
(***************************************************************************)
EXTENDS Integers, Sequences, FiniteSets, TLC

\* ------------------------------------------------------------------------
\* Bounds
\* ------------------------------------------------------------------------
MaxPathLen == 5

\* ------------------------------------------------------------------------
\* JavaScript values
\* ------------------------------------------------------------------------
Undef == [t |-> "undefined", v |-> 0]
Null == [t |-> "null", v |-> 0]
NaN == [t |-> "nan", v |-> 0]
False == [t |-> "boolean", v |-> 0]
True == [t |-> "boolean", v |-> 1]
EmptyStr == [t |-> "string", v |-> 0]
StrX == [t |-> "string", v |-> 1]
Num(n) == [t |-> "number", v |-> n]
Ref(id) == [t |-> "object", v |-> id]

IsObj(x) == x.t = "object"

\* ToBoolean: undefined, null, NaN, false, 0 and "" are falsy.
Truthy(x) ==
    CASE x.t = "undefined" -> FALSE
      [] x.t = "null" -> FALSE
      [] x.t = "nan" -> FALSE
      [] x.t = "object" -> TRUE
      [] OTHER -> x.v # 0

\* The === operator: NaN is not equal to itself, objects compare by identity.
StrictEq(x, y) == x.t # "nan" /\ x = y

\* ------------------------------------------------------------------------
\* Strings: paths and property keys
\* ------------------------------------------------------------------------
Dot == "."
A == <<"a">>
B == <<"b">>
Chars == {Dot, "a", "b"}

RECURSIVE SeqsUpTo(_)
SeqsUpTo(n) ==
    IF n = 0 THEN {<<>>}
    ELSE LET S == SeqsUpTo(n - 1)
         IN S \cup {Append(s, c) : s \in {x \in S : Len(x) = n - 1}, c \in Chars}

Paths == SeqsUpTo(MaxPathLen)

\* path.replace(/^\./, ''): one dot only
StripOneDot(p) ==
    IF p # <<>> /\ Head(p) = Dot THEN Tail(p) ELSE p

\* path.replace(/^\.+/, '')
RECURSIVE StripDots(_)
StripDots(p) ==
    IF p # <<>> /\ Head(p) = Dot THEN StripDots(Tail(p)) ELSE p

\* path.split('.'): always at least one part; parts may be empty strings.
RECURSIVE SplitAcc(_, _)
SplitAcc(p, cur) ==
    IF p = <<>> THEN <<cur>>
    ELSE IF Head(p) = Dot THEN <<cur>> \o SplitAcc(Tail(p), <<>>)
    ELSE SplitAcc(Tail(p), Append(cur, Head(p)))

Split(p) == SplitAcc(p, <<>>)

\* parts.join('.')
RECURSIVE Join(_)
Join(parts) ==
    IF parts = <<>> THEN <<>>
    ELSE IF Len(parts) = 1 THEN Head(parts)
    ELSE Head(parts) \o <<Dot>> \o Join(Tail(parts))

\* ------------------------------------------------------------------------
\* Objects (Nodes) and the heap
\* ------------------------------------------------------------------------
NoProps == [k \in {} |-> Undef]

\* props    own enumerable properties reached by next[part]
\* getters  the _getters mapping: key -> [generated, result]; result is what
\*          the mapped accessor method returns when invoked
\* get/set  "none" (no such member), "alias" (the member is enyo.getPath /
\*          enyo.setPath itself) or "own" (another function)
\* getv     what an "own" get(part) returns
\* notify   whether the object has a notify hook
\* computed the _computed map: the keys declared computed and what the map
\*          holds for them
Node(props, getters, get, getv, set, notify) ==
    [props |-> props, getters |-> getters, get |-> get, getv |-> getv,
     set |-> set, notify |-> notify, computed |-> NoProps]

WithComputed(n, computed) == [n EXCEPT !.computed = computed]

Plain(props) == Node(props, NoProps, "none", NoProps, "none", FALSE)
Observed(props) == Node(props, NoProps, "none", NoProps, "none", TRUE)

GlobalId == 1
EnyoId == 2
RootId == 3

\* next[part] on an object
Lookup(h, id, part) ==
    IF part \in DOMAIN h[id].props THEN h[id].props[part] ELSE Undef

\* next.get(part) for an own get
OwnGet(h, id, part) ==
    IF part \in DOMAIN h[id].getv THEN h[id].getv[part] ELSE Undef

\* next[part] = val that leaves a property already there as it is
StoreKeep(h, id, part, val) ==
    [h EXCEPT ![id].props =
        [k \in DOMAIN @ \cup {part} |-> IF k \in DOMAIN @ THEN @[k] ELSE val]]

\* next[part] = val
Store(h, id, part, val) ==
    [h EXCEPT ![id].props =
        [k \in DOMAIN @ \cup {part} |-> IF k = part THEN val ELSE @[k]]]

\* {} : a new empty object
Alloc(h) == Append(h, Plain(NoProps))

\* this === enyo ? enyo.global : this
RootOf(this) == IF this = EnyoId THEN GlobalId ELSE this

\* ------------------------------------------------------------------------
\* enyo.getPath
\* ------------------------------------------------------------------------

\* GetStep with the _getters mapping left unread
GetStepPlain(h, this, next, part) ==
    IF ~IsObj(next) THEN Undef
    ELSE IF h[next.v].get = "own" /\ next.v # this
        THEN IF part \in DOMAIN h[next.v].getv THEN h[next.v].getv[part] ELSE Undef
    ELSE IF part \in DOMAIN h[next.v].props THEN h[next.v].props[part] ELSE Undef

\* One pass of the do-while body: the value of `next` after reading `part`.
\* A primitive has neither _getters nor get, and none of the keys used here.
GetStep(h, this, next, part) ==
    IF ~IsObj(next) THEN Undef
    ELSE LET id == next.v
             n == h[id]
         IN IF part \in DOMAIN n.getters /\ ~n.getters[part].generated
                THEN n.getters[part].result
            ELSE IF n.get = "own" /\ id # this
                THEN OwnGet(h, id, part)
            ELSE Lookup(h, id, part)

\* GetWalk answering the last object reached when the walk breaks off
RECURSIVE GetWalkLast(_, _, _, _)
GetWalkLast(h, this, next, parts) ==
    LET nxt == GetStep(h, this, next, Head(parts))
        rest == Tail(parts)
    IN IF Truthy(nxt) /\ rest # <<>> /\ Head(rest) # <<>>
           THEN GetWalkLast(h, this, nxt, rest)
       ELSE IF Truthy(nxt) \/ rest = <<>> THEN nxt
       ELSE next

\* do { ... } while (next && (part = parts.shift()));  parts holds the
\* current part at its head.
RECURSIVE GetWalk(_, _, _, _)
GetWalk(h, this, next, parts) ==
    LET nxt == GetStep(h, this, next, Head(parts))
        rest == Tail(parts)
    IN IF Truthy(nxt) /\ rest # <<>> /\ Head(rest) # <<>>
           THEN GetWalk(h, this, nxt, rest)
       ELSE nxt

GetPath(h, this, path) ==
    IF path = <<>> THEN EmptyStr
    ELSE LET p == StripDots(path)
         IN IF p = <<>> THEN Undef
            ELSE GetWalk(h, this, Ref(RootOf(this)), Split(p))

\* ------------------------------------------------------------------------
\* enyo.setPath
\* ------------------------------------------------------------------------
DefaultOptions == [create |-> TRUE, silent |-> FALSE, force |-> FALSE,
                   comparator |-> "none"]

\* The opts argument: [kind |-> "none"] (omitted), [kind |-> "bool", b]
\* (the legacy force flag) or [kind |-> "obj", o] where o is a function from
\* a subset of the option names to their values.
NoOpts == [kind |-> "none"]
BoolOpts(b) == [kind |-> "bool", b |-> b]
ObjOpts(o) == [kind |-> "obj", o |-> o]

\* enyo.mixin({}, [options, opts]) on the four recognised keys
MixinOptions(o) ==
    [create |-> IF "create" \in DOMAIN o THEN o["create"] ELSE DefaultOptions.create,
     silent |-> IF "silent" \in DOMAIN o THEN o["silent"] ELSE DefaultOptions.silent,
     force |-> IF "force" \in DOMAIN o THEN o["force"] ELSE DefaultOptions.force,
     comparator |-> IF "comparator" \in DOMAIN o THEN o["comparator"]
                    ELSE DefaultOptions.comparator]

\* opts merged with only the truthy values of the caller's hash taken
NormOptsTruthy(opts) ==
    IF opts.kind = "obj"
        THEN [create |-> TRUE,
              silent |-> "silent" \in DOMAIN opts.o /\ opts.o["silent"],
              force |-> "force" \in DOMAIN opts.o /\ opts.o["force"],
              comparator |-> IF "comparator" \in DOMAIN opts.o
                                 THEN opts.o["comparator"] ELSE "none"]
    ELSE DefaultOptions

\* opts after lines 469-473
NormOpts(opts) == IF opts.kind = "obj" THEN MixinOptions(opts.o) ELSE DefaultOptions

\* force after lines 469-475
ForceOf(opts) ==
    IF opts.kind = "obj" THEN MixinOptions(opts.o).force
    ELSE IF opts.kind = "bool" THEN opts.b
    ELSE FALSE

\* comparator && comparator(was, is): the two comparators used as inputs
\* answer true ("yes") or false ("no") whatever they are given
ComparatorSays(o, was, is) == o.comparator = "yes"

HasOwnSet(h, base, next) ==
    IsObj(next) /\ next.v # base /\ h[next.v].set = "own"

\* the result of a call: the heap, the returned value, the notify calls made
\* (node, part, was, is, opts), the calls made to nested set methods and the
\* assignments next[part] = val executed, in order
Result(h, ret, notified, setCalls, assigned) ==
    [heap |-> h, ret |-> ret, notified |-> notified, setCalls |-> setCalls,
     assigned |-> assigned]

\* line 493: was = next.get && next.get !== getPath ? next.get(part) : next[part]
ReadWas(h, next, part) ==
    IF ~IsObj(next) THEN Undef
    ELSE IF h[next.v].get = "own" THEN OwnGet(h, next.v, part)
    ELSE Lookup(h, next.v, part)

\* lines 505-506 without the || (create && ...) tail
ReadNext(h, base, next, part) ==
    IF ~IsObj(next) THEN Undef
    ELSE IF next.v # base /\ h[next.v].get = "own" THEN OwnGet(h, next.v, part)
    ELSE Lookup(h, next.v, part)

\* line 521 without the comparison of the old and the new value
ShouldNotifyAlways(h, next, o, force, was, is) ==
    IsObj(next) /\ h[next.v].notify /\ ~o.silent

\* line 521 with force overriding silent
ShouldNotifyForced(h, next, o, force, was, is) ==
    /\ IsObj(next)
    /\ h[next.v].notify
    /\ (force \/ (~o.silent /\ (~StrictEq(was, is) \/ ComparatorSays(o, was, is))))

\* line 521 with was === is in the place of was !== is
ShouldNotifyEqual(h, next, o, force, was, is) ==
    /\ IsObj(next)
    /\ h[next.v].notify
    /\ ~o.silent
    /\ (force \/ StrictEq(was, is) \/ ComparatorSays(o, was, is))

\* line 521
ShouldNotify(h, next, o, force, was, is) ==
    /\ IsObj(next)
    /\ h[next.v].notify
    /\ ~o.silent
    /\ (force \/ ~StrictEq(was, is) \/ ComparatorSays(o, was, is))

\* lines 511-523, after the loop
SetFinish(h, base, next, part, was, is, o, force, asg) ==
    IF ~Truthy(next) THEN Result(h, Ref(base), <<>>, <<>>, asg)
    ELSE IF HasOwnSet(h, base, next)
        THEN Result(h, Ref(base), <<>>,
                    <<[node |-> next.v, path |-> part, is |-> is, opts |-> o]>>,
                    asg)
    ELSE LET \* next[part] = is on a primitive stores nothing (sloppy mode)
             h2 == IF IsObj(next) THEN Store(h, next.v, part, is) ELSE h
         IN Result(h2, Ref(base),
                   IF ShouldNotify(h, next, o, force, was, is)
                       THEN <<[node |-> next.v, part |-> part, was |-> was,
                               is |-> is, opts |-> o]>>
                   ELSE <<>>,
                   <<>>,
                   Append(asg, [kind |-> "write", on |-> next, part |-> part,
                                val |-> is]))

\* the walk making the missing objects without storing them in their parent
RECURSIVE SetWalkUnlinked(_, _, _, _, _, _, _, _, _)
SetWalkUnlinked(h, base, next, part, parts, is, o, force, asg) ==
    IF parts = <<>>
        THEN SetFinish(h, base, next, part, ReadWas(h, next, part), is, o,
                       force, asg)
    ELSE IF HasOwnSet(h, base, next)
        THEN Result(h, Ref(base), <<>>,
                    <<[node |-> next.v, path |-> Join(<<part>> \o parts),
                       is |-> is, opts |-> o]>>,
                    asg)
    ELSE LET cur == ReadNext(h, base, next, part)
             made == ~Truthy(cur) /\ o.create
             h1 == IF made THEN Alloc(h) ELSE h
             h2 == h1
             nxt == IF Truthy(cur) THEN cur
                    ELSE IF o.create THEN Ref(Len(h1))
                    ELSE False
             asg2 == IF made
                         THEN Append(asg, [kind |-> "create", on |-> next,
                                           part |-> part,
                                           val |-> Ref(Len(h1))])
                     ELSE asg
         IN IF ~Truthy(nxt)
                THEN SetFinish(h2, base, nxt, part, Undef, is, o, force, asg2)
            ELSE IF Head(parts) = <<>>
                \* part = parts.shift() is '' and ends the loop
                THEN SetFinish(h2, base, nxt, <<>>, Undef, is, o, force, asg2)
            ELSE SetWalkUnlinked(h2, base, nxt, Head(parts), Tail(parts), is, o,
                         force, asg2)

\* lines 491-509: one pass of the do-while body and its condition; `parts`
\* is what is left after `part` was shifted off.
RECURSIVE SetWalk(_, _, _, _, _, _, _, _, _)
SetWalk(h, base, next, part, parts, is, o, force, asg) ==
    IF parts = <<>>
        THEN SetFinish(h, base, next, part, ReadWas(h, next, part), is, o,
                       force, asg)
    ELSE IF HasOwnSet(h, base, next)
        THEN Result(h, Ref(base), <<>>,
                    <<[node |-> next.v, path |-> Join(<<part>> \o parts),
                       is |-> is, opts |-> o]>>,
                    asg)
    ELSE LET cur == ReadNext(h, base, next, part)
             made == ~Truthy(cur) /\ o.create
             h1 == IF made THEN Alloc(h) ELSE h
             \* next[part] = {} on a primitive stores nothing (sloppy mode)
             h2 == IF made /\ IsObj(next)
                       THEN Store(h1, next.v, part, Ref(Len(h1)))
                   ELSE h1
             nxt == IF Truthy(cur) THEN cur
                    ELSE IF o.create THEN Ref(Len(h1))
                    ELSE False
             asg2 == IF made
                         THEN Append(asg, [kind |-> "create", on |-> next,
                                           part |-> part,
                                           val |-> Ref(Len(h1))])
                     ELSE asg
         IN IF ~Truthy(nxt)
                THEN SetFinish(h2, base, nxt, part, Undef, is, o, force, asg2)
            ELSE IF Head(parts) = <<>>
                \* part = parts.shift() is '' and ends the loop
                THEN SetFinish(h2, base, nxt, <<>>, Undef, is, o, force, asg2)
            ELSE SetWalk(h2, base, nxt, Head(parts), Tail(parts), is, o,
                         force, asg2)

SetPath(h, this, path, is, opts) ==
    IF path = <<>> THEN Result(h, Ref(this), <<>>, <<>>, <<>>)
    ELSE LET p == StripDots(path)
             base == RootOf(this)
         IN IF p = <<>> THEN Result(h, Ref(base), <<>>, <<>>, <<>>)
            ELSE LET parts == Split(p)
                 IN SetWalk(h, base, Ref(base), Head(parts), Tail(parts), is,
                            NormOpts(opts), ForceOf(opts), <<>>)

\* ------------------------------------------------------------------------
\* enyo.setPath.fast
\* ------------------------------------------------------------------------

\* b._computed && b._computed[path] !== undefined
IsComputed(h, b, path) ==
    path \in DOMAIN h[b].computed /\ h[b].computed[path] # Undef

\* the previous value: b[fn]() when _getters maps the path, generated or
\* not, else b[path]
FastWas(h, b, path) ==
    IF path \in DOMAIN h[b].getters THEN h[b].getters[path].result
    ELSE Lookup(h, b, path)

\* a call of b.notifyObservers(path, rv, value)
Observers(b, path, was, is) ==
    [hook |-> "notifyObservers", node |-> b, part |-> path, was |-> was,
     is |-> is]

\* setPath.fast reading the previous value from the property itself
SetPathFastStored(h, b, path, value) ==
    IF IsComputed(h, b, path) THEN Result(h, Ref(b), <<>>, <<>>, <<>>)
    ELSE LET rv == Lookup(h, b, path)
         IN Result(Store(h, b, path, value), Ref(b),
                   IF ~StrictEq(rv, value)
                       THEN <<Observers(b, path, rv, value)>>
                   ELSE <<>>,
                   <<>>,
                   <<[kind |-> "write", on |-> Ref(b), part |-> path,
                      val |-> value]>>)

\* b.setPath.fast(path, value), lines 529-552
SetPathFast(h, b, path, value) ==
    IF IsComputed(h, b, path) THEN Result(h, Ref(b), <<>>, <<>>, <<>>)
    ELSE LET rv == FastWas(h, b, path)
         IN Result(Store(h, b, path, value), Ref(b),
                   IF ~StrictEq(rv, value)
                       THEN <<Observers(b, path, rv, value)>>
                   ELSE <<>>,
                   <<>>,
                   <<[kind |-> "write", on |-> Ref(b), part |-> path,
                      val |-> value]>>)

\* ------------------------------------------------------------------------
\* The object graphs the resolver is exercised on.  Object 1 is the global
\* object (window.a is the application root), object 2 the enyo namespace,
\* object 3 the application root the calls are made on, 4 and 5 sit below.
\* ------------------------------------------------------------------------
Getter(generated, result) == [generated |-> generated, result |-> result]

Base(root) == <<Plain(A :> Ref(RootId)), Plain(NoProps), root>>

InitHeaps ==
    { \* an empty root
      Base(Plain(NoProps)),
      Base(Observed(NoProps)),
      \* a chain of plain observed objects: root.a.b.a = 5, root.a.b.b = NaN
      Base(Observed(A :> Ref(4))) \o
          <<Observed(B :> Ref(5)), Observed(A :> Num(5) @@ B :> NaN)>>,
      \* primitives under the root, truthy and falsy
      Base(Observed(A :> Num(5) @@ B :> Num(0))),
      Base(Observed(A :> StrX @@ B :> Null)),
      Base(Observed(A :> True @@ B :> EmptyStr)),
      Base(Observed(A :> False @@ B :> NaN)),
      \* a child that lacks the next segment
      Base(Plain(A :> Ref(4))) \o <<Observed(A :> Num(7))>>,
      \* a non-generated getter mapping on the root, hiding root.a
      Base(Node(A :> Ref(4), A :> Getter(FALSE, Ref(5)), "none", NoProps,
                "none", TRUE)) \o
          <<Plain(B :> Num(7)), Plain(B :> Num(5))>>,
      \* the same mapping, generated: it is not consulted
      Base(Node(A :> Ref(4), A :> Getter(TRUE, Ref(5)), "none", NoProps,
                "none", TRUE)) \o
          <<Plain(B :> Num(7)), Plain(B :> Num(5))>>,
      \* a child with its own get that answers differently from its storage
      Base(Plain(A :> Ref(4))) \o
          <<Node(B :> Num(7) @@ A :> Num(5), NoProps, "own",
                 B :> Ref(5) @@ A :> Num(7), "none", TRUE),
            Observed(A :> Num(5))>>,
      \* a child whose own get answers undefined for a stored segment
      Base(Plain(A :> Ref(4))) \o
          <<Node(B :> Ref(5), NoProps, "own", NoProps, "none", TRUE),
            Observed(A :> Num(5))>>,
      \* a child whose get and set are getPath and setPath themselves
      Base(Plain(A :> Ref(4))) \o
          <<Node(B :> Ref(5) @@ A :> Num(5), NoProps, "alias", NoProps,
                 "alias", TRUE),
            Observed(A :> Num(5))>>,
      \* a child with its own set
      Base(Observed(A :> Ref(4))) \o
          <<Node(B :> Ref(5) @@ A :> Num(5), NoProps, "none", NoProps,
                 "own", TRUE),
            Observed(A :> Num(5))>>,
      \* a child with a getter mapping and its own get: the mapping wins
      Base(Plain(A :> Ref(4))) \o
          <<Node(B :> Num(0), B :> Getter(FALSE, Ref(5)), "own",
                 B :> Num(7), "own", TRUE),
            Observed(A :> Num(5))>>,
      \* a root with its own get and set
      Base(Node(A :> Num(5) @@ B :> Ref(4), NoProps, "own",
                A :> Num(7) @@ B :> Undef, "own", TRUE)) \o
          <<Observed(A :> Num(5))>>
    }

\* the objects setPath.fast is called on (object 3): enyo objects with and
\* without computed properties and getter mappings
FastHeaps ==
    { Base(Observed(A :> Num(5) @@ B :> NaN)),
      Base(Observed(NoProps)),
      \* a is computed
      Base(WithComputed(Observed(A :> Num(5)), A :> True)),
      \* b is computed and the map holds 0 for it
      Base(WithComputed(Observed(B :> Num(5)), B :> Num(0))),
      \* a is read through a generated accessor that answers 7
      Base(Node(A :> Num(5), A :> Getter(TRUE, Num(7)), "none", NoProps,
                "none", TRUE)),
      \* b is read through a written accessor that answers 5
      Base(Node(B :> Num(7), B :> Getter(FALSE, Num(5)), "none", NoProps,
                "none", TRUE)),
      \* a is computed, b is read through an accessor
      Base(WithComputed(Node(A :> Num(7) @@ B :> Num(7),
                             B :> Getter(FALSE, NaN), "none", NoProps,
                             "none", TRUE),
                        A :> True)) }

FastPaths == {A, B}

\* the values written
SetValues == {Num(5), Num(7), NaN}

\* the options written with
SetOpts ==
    { NoOpts,
      BoolOpts(TRUE),
      ObjOpts("create" :> FALSE),
      ObjOpts("silent" :> TRUE),
      ObjOpts("force" :> TRUE),
      ObjOpts("silent" :> TRUE @@ "force" :> TRUE),
      ObjOpts("comparator" :> "yes"),
      ObjOpts("comparator" :> "no") }

\* the receivers: enyo itself (the global object is then the root) or the
\* application root
Receivers == {EnyoId, RootId}

\* ------------------------------------------------------------------------
\* enyo.BindingSupport
\* ------------------------------------------------------------------------
MaxBindings == 2
MaxQueue == 2

Owners == {1, 2}

\* A declaration hash: the keys a binding is declared with.  owner = 0 and
\* kind = "" stand for an absent key.
Hash(from, owner, kind) == [kind |-> kind, from |-> from, owner |-> owner]
NoHash == Hash("", 0, "")

\* enyo.defaultBindingKind, as the mixin captured it
defaultBindingKind == "enyo.Binding"

\* enyo.mixin(args): the hashes merged left to right into a new object
RECURSIVE MixinArgs(_, _)
MixinArgs(args, acc) ==
    IF args = <<>> THEN acc
    ELSE LET h == Head(args)
         IN MixinArgs(Tail(args),
                [kind |-> IF h.kind # "" THEN h.kind ELSE acc.kind,
                 from |-> IF h.from # "" THEN h.from ELSE acc.from,
                 owner |-> IF h.owner # 0 THEN h.owner ELSE acc.owner])

\* the elements of a binding list: a raw declaration or a Binding instance
Raw(props) == [t |-> "raw", id |-> 0, props |-> props]
Bnd(id) == [t |-> "bnd", id |-> id, props |-> NoHash]

\* the bindings property of an owner: not set on the instance (the kind's
\* prototype is read), null, or an array of the instance's own
Inherited == [t |-> "proto", list |-> <<>>]
NullList == [t |-> "null", list |-> <<>>]
OwnList(list) == [t |-> "own", list |-> list]

\* the bindings property of the kind's prototype: undefined or an array
NoProto == [t |-> "undef", list |-> <<>>]
ProtoList(list) == [t |-> "arr", list |-> list]

\* a reference to an array
NoArray == [t |-> "none", o |-> 0, list |-> <<>>]
ProtoArray == [t |-> "proto", o |-> 0, list |-> <<>>]
OwnArray(o) == [t |-> "own", o |-> o, list |-> <<>>]
FreshArray(list) == [t |-> "fresh", o |-> 0, list |-> list]

\* The state the mixin works on: owners, the prototype's list, the Binding
\* instances made so far, the destroy calls made and the instances created
\* by the running call, whether the call threw, and the assignments to an
\* owner reference of an existing Binding that the call made.
BState(owners, proto, bnds, destroys, created, threw) ==
    [owners |-> owners, proto |-> proto, bnds |-> bnds, destroys |-> destroys,
     created |-> created, threw |-> threw, writes |-> <<>>]

\* binding.owner = null: the Binding, the method that assigned and its
\* receiver (0 when the Binding assigned itself), and the owner before
OwnerWrite(b, via, by, was) == [b |-> b, was |-> was, via |-> via, by |-> by]

\* this.bindings
ReadBindings(S, o) ==
    LET b == S.owners[o].bindings
    IN IF b.t = "own" THEN OwnArray(o)
       ELSE IF b.t = "proto" /\ S.proto.t = "arr" THEN ProtoArray
       ELSE NoArray

ArrayAt(S, ref) ==
    IF ref.t = "own" THEN S.owners[ref.o].bindings.list
    ELSE IF ref.t = "proto" THEN S.proto.list
    ELSE ref.list

SetArray(S, ref, list) ==
    IF ref.t = "own" THEN [S EXCEPT !.owners[ref.o].bindings = OwnList(list)]
    ELSE IF ref.t = "proto" THEN [S EXCEPT !.proto = ProtoList(list)]
    ELSE S

\* array.indexOf(el): 0 when el is not in the array
IndexOf(list, el) ==
    IF \E i \in 1..Len(list) : list[i] = el
        THEN CHOOSE i \in 1..Len(list) :
                 list[i] = el /\ \A j \in 1..(i - 1) : list[j] # el
    ELSE 0

\* array.splice(i, 1)
Splice(list, i) == SubSeq(list, 1, i - 1) \o SubSeq(list, i + 1, Len(list))

\* enyo.remove(el, array): the arguments are swapped when the first is no
\* array; a null or undefined array has no indexOf
Remove(S, ref, b) ==
    IF ref.t = "none" THEN [S EXCEPT !.threw = TRUE]
    ELSE LET list == ArrayAt(S, ref)
             i == IndexOf(list, Bnd(b))
         IN IF i > 0 THEN SetArray(S, ref, Splice(list, i)) ELSE S

\* removeBinding() nulling the owner reference whatever it points at
RemoveBindingOpAlways(S, o, b) ==
    LET S1 == Remove(S, ReadBindings(S, o), b)
    IN IF S1.threw THEN S1
       ELSE [S1 EXCEPT !.bnds[b].owner = 0,
                       !.writes = Append(@, OwnerWrite(b, "removeBinding", o,
                                                       S1.bnds[b].owner))]

\* removeBinding() with the test of binding.owner turned round
RemoveBindingOpForeign(S, o, b) ==
    LET S1 == Remove(S, ReadBindings(S, o), b)
    IN IF S1.threw THEN S1
       ELSE IF S1.bnds[b].owner # o
           THEN [S1 EXCEPT !.bnds[b].owner = 0,
                           !.writes = Append(@, OwnerWrite(b, "removeBinding",
                                                           o, S1.bnds[b].owner))]
       ELSE S1

\* removeBinding(binding)
RemoveBindingOp(S, o, b) ==
    LET S1 == Remove(S, ReadBindings(S, o), b)
    IN IF S1.threw THEN S1
       ELSE IF S1.bnds[b].owner = o
           THEN [S1 EXCEPT !.bnds[b].owner = 0,
                           !.writes = Append(@, OwnerWrite(b, "removeBinding",
                                                           o, o))]
       ELSE S1

\* enyo.Binding's destroy: the Binding is removed from its owner, its owner
\* reference is nulled and it is no longer live.
BindingDestroy(S, b) ==
    LET owner == S.bnds[b].owner
        S1 == IF owner # 0 /\ ReadBindings(S, owner).t # "none"
                  THEN RemoveBindingOp(S, owner, b)
              ELSE S
    IN [S1 EXCEPT !.bnds[b].owner = 0, !.bnds[b].live = FALSE,
                  !.destroys = Append(@, b),
                  !.writes = Append(@, OwnerWrite(b, "destroy", 0,
                                                  S1.bnds[b].owner))]

\* bindings.forEach(function (bnd) { bnd.destroy(); }): indices 1..len are
\* visited in order, each read from the array as it then is
RECURSIVE ForEachDestroy(_, _, _, _)
ForEachDestroy(S, ref, k, len) ==
    IF k > len \/ S.threw THEN S
    ELSE LET list == ArrayAt(S, ref)
         IN IF k > Len(list) THEN ForEachDestroy(S, ref, k + 1, len)
            ELSE IF list[k].t = "raw" THEN [S EXCEPT !.threw = TRUE]
            ELSE ForEachDestroy(BindingDestroy(S, list[k].id), ref, k + 1, len)

\* clearBindings walking this.bindings itself, not a copy of it
ClearBindingsNoCopy(S, o, subset) ==
    LET mine == ReadBindings(S, o)
        bindings == IF subset.t # "none" THEN subset ELSE mine
    IN IF bindings.t = "none" THEN [S EXCEPT !.threw = TRUE]
       ELSE ForEachDestroy(S, bindings, 1, Len(ArrayAt(S, bindings)))

\* clearBindings(subset): subset is NoArray when the argument is omitted
ClearBindingsOp(S, o, subset) ==
    LET mine == ReadBindings(S, o)
        bindings == IF subset.t # "none" THEN subset
                    ELSE IF mine.t # "none" THEN FreshArray(ArrayAt(S, mine))
                    ELSE NoArray
    IN IF bindings.t = "none" THEN [S EXCEPT !.threw = TRUE]
       ELSE ForEachDestroy(S, bindings, 1, Len(ArrayAt(S, bindings)))

\* binding() putting the new element first in the list
BindingOpFirst(S, o, args) ==
    LET mixed == MixinArgs(args, NoHash)
        S1 == IF ReadBindings(S, o).t = "none"
                  THEN [S EXCEPT !.owners[o].bindings = OwnList(<<>>)]
              ELSE S
        bindings == ReadBindings(S1, o)
        props == [mixed EXCEPT
                    !.owner = IF mixed.owner # 0 THEN mixed.owner ELSE o,
                    !.kind = IF mixed.kind # "" THEN mixed.kind
                             ELSE defaultBindingKind]
        id == Len(S1.bnds) + 1
    IN IF S1.owners[o].initialized
           THEN LET S2 == [S1 EXCEPT
                             !.bnds = Append(@, [owner |-> props.owner,
                                                 live |-> TRUE,
                                                 props |-> props]),
                             !.created = Append(@, id)]
                IN SetArray(S2, bindings, <<Bnd(id)>> \o ArrayAt(S2, bindings))
       ELSE SetArray(S1, bindings, <<Raw(props)>> \o ArrayAt(S1, bindings))

\* binding(...props): a live owner gets a new Binding at the end of its list,
\* another one the merged hash
BindingOp(S, o, args) ==
    LET mixed == MixinArgs(args, NoHash)
        S1 == IF ReadBindings(S, o).t = "none"
                  THEN [S EXCEPT !.owners[o].bindings = OwnList(<<>>)]
              ELSE S
        bindings == ReadBindings(S1, o)
        props == [mixed EXCEPT
                    !.owner = IF mixed.owner # 0 THEN mixed.owner ELSE o,
                    !.kind = IF mixed.kind # "" THEN mixed.kind
                             ELSE defaultBindingKind]
        id == Len(S1.bnds) + 1
    IN IF S1.owners[o].initialized
           THEN LET S2 == [S1 EXCEPT
                             !.bnds = Append(@, [owner |-> props.owner,
                                                 live |-> TRUE,
                                                 props |-> props]),
                             !.created = Append(@, id)]
                IN SetArray(S2, bindings, Append(ArrayAt(S2, bindings), Bnd(id)))
       ELSE SetArray(S1, bindings, Append(ArrayAt(S1, bindings), Raw(props)))

\* the declarations put back in the list as they are, none instantiated
ForEachBindingRaw(S, o, defs) ==
    SetArray(S, ReadBindings(S, o), ArrayAt(S, ReadBindings(S, o)) \o defs)

\* bindings.forEach(function (def) { this.binding(def); }, this)
RECURSIVE ForEachBinding(_, _, _)
ForEachBinding(S, o, defs) ==
    IF defs = <<>> THEN S
    ELSE ForEachBinding(BindingOp(S, o, <<Head(defs).props>>), o, Tail(defs))

\* constructed() without this.bindings = []
ConstructedKeep(S, o) ==
    LET bindings == ReadBindings(S, o)
        S1 == [S EXCEPT !.owners[o].initialized = TRUE]
    IN IF bindings.t = "none" THEN S1
       ELSE ForEachBinding(S1, o, ArrayAt(S, bindings))

\* constructed()
ConstructedOp(S, o) ==
    LET bindings == ReadBindings(S, o)
        S1 == [S EXCEPT !.owners[o].initialized = TRUE]
    IN IF bindings.t = "none" THEN S1
       ELSE ForEachBinding([S1 EXCEPT !.owners[o].bindings = OwnList(<<>>)],
                           o, ArrayAt(S, bindings))

\* destroy(): the inherited destroy marks the owner destroyed, then the
\* bindings are cleared and the list is nulled
DestroyOp(S, o) ==
    LET S1 == [S EXCEPT !.owners[o].destroyed = TRUE]
        mine == ReadBindings(S1, o)
        S2 == IF mine.t # "none" /\ Len(ArrayAt(S1, mine)) > 0
                  THEN ClearBindingsOp(S1, o, NoArray)
              ELSE S1
    IN IF S2.threw THEN S2
       ELSE [S2 EXCEPT !.owners[o].bindings = NullList]

\* ------------------------------------------------------------------------
\* Propagation through a Binding.  enyo.Binding and the observer registry
\* are not among the sources at hand; what a live Binding does with a
\* notification is taken from the description of the binding protocol: the
\* notify hook of the source hands the new value to every live Binding that
\* observes the changed property, and a one-way Binding writes it to its
\* target path with the target's set.
\*
\* Owner 1 is the object X (heap object RootId) and owner 2 the object Y (the
\* heap object after it).  Every Binding declared here names Y as its target
\* and b as its target path; its source is the owner it was declared with.
\* ------------------------------------------------------------------------
MaxLinks == 1

XId == RootId
YId == RootId + 1

\* the heap object an owner is
ObjOf(o) == RootId + o - 1

\* the source path a declaration's `from` key stands for
FromPath(from) == IF from = "x" THEN A ELSE B

\* the target path of the declarations
ToPath == B

\* the live Bindings observing property `part` of heap object `id`
Observing(S, id, part) ==
    {b \in 1..Len(S.bnds) :
        /\ S.bnds[b].live
        /\ ObjOf(S.bnds[b].props.owner) = id
        /\ FromPath(S.bnds[b].props.from) = part}

\* source.notify(part, was, is): each observing Binding sets the target path
RECURSIVE Propagate(_, _, _)
Propagate(h, S, notes) ==
    IF notes = <<>> THEN h
    ELSE LET n == Head(notes)
             h1 == IF Observing(S, n.node, n.part) # {}
                       THEN SetPath(h, YId, ToPath, n.is, NoOpts).heap
                   ELSE h
         IN Propagate(h1, S, Tail(notes))

\* the two objects of the propagation runs: X.a = 5, X.b = 7, Y.b = 0
PropHeap ==
    Base(Observed(A :> Num(5) @@ B :> Num(7))) \o <<Observed(B :> Num(0))>>

\* the writes made: X.setPath('a'), X.setPath('b'), and the same properties
\* written from the global object, enyo.setPath('a.a'), enyo.setPath('a.b')
PropTargets ==
    {<<XId, A>>, <<XId, B>>,
     <<EnyoId, <<"a", Dot, "a">>>>, <<EnyoId, <<"a", Dot, "b">>>>}

PropOpts == {NoOpts, ObjOpts("silent" :> TRUE)}

\* ------------------------------------------------------------------------
\* enyo.bind and enyo.bindSafely
\*
\* A function is the value [t |-> "function", v |-> its number]; the string
\* numbered n > 0 is the name of the property NameKey(n).
\* ------------------------------------------------------------------------
MaxBound == 1

Fn(id) == [t |-> "function", v |-> id]
Str(n) == [t |-> "string", v |-> n]

C == <<"c">>
DestroyedKey == <<"destroyed">>

\* the property a string names
NameKey(n) == IF n = 0 THEN <<>> ELSE IF n = 1 THEN A ELSE IF n = 2 THEN B ELSE C

\* typeof x == 'string', typeof x == 'function'
IsString(x) == x.t = "string"
IsFunction(x) == x.t = "function"

\* scope[key]: null and undefined have no properties (a TypeError); of the
\* values used as scopes only objects carry the properties looked up
Nullish(x) == x.t \in {"undefined", "null"}
ScopeGet(h, scope, key) == IF IsObj(scope) THEN Lookup(h, scope.v, key) ELSE Undef

\* what a bound function remembers; wasDestroyed notes whether the scope was
\* destroyed when the function was made, which the function does not know
Closure(scope, method, args, safe) ==
    [scope |-> scope, method |-> method, args |-> args, safe |-> safe,
     wasDestroyed |-> FALSE]

\* the outcome of bind / bindSafely: a thrown error or the function returned
Thrown == [threw |-> TRUE, fn |-> Closure(Undef, Undef, <<>>, FALSE)]
Bound(c) == [threw |-> FALSE, fn |-> c]

\* Resolve without the test that the method is a function
ResolveAny(h, scope, method, args, safe) ==
    LET named == IsString(method)
        found == ScopeGet(h, scope, NameKey(method.v))
        m == IF named THEN found ELSE method
    IN IF named /\ (Nullish(scope) \/ ~Truthy(found)) THEN Thrown
       ELSE Bound(Closure(scope, m, args, safe))

\* lines 227-246 and 262-280: a string names a property of the scope, which
\* must be truthy; what is then at hand must be a function
Resolve(h, scope, method, args, safe) ==
    LET named == IsString(method)
        found == ScopeGet(h, scope, NameKey(method.v))
        m == IF named THEN found ELSE method
    IN IF named /\ (Nullish(scope) \/ ~Truthy(found)) THEN Thrown
       ELSE IF IsFunction(m) THEN Bound(Closure(scope, m, args, safe))
       ELSE Thrown

\* enyo.bind(scope, method, ...args): a falsy method makes the first
\* argument the method; a falsy scope is replaced by the global object
Bind(h, scope, method, args) ==
    LET m == IF Truthy(method) THEN method ELSE scope
        s1 == IF Truthy(method) THEN scope ELSE Null
        s2 == IF Truthy(s1) THEN s1 ELSE Ref(GlobalId)
    IN Resolve(h, s2, m, args, FALSE)

\* enyo.bindSafely(scope, method, ...args)
BindSafely(h, scope, method, args) == Resolve(h, scope, method, args, TRUE)

\* a call method.apply(scope, args)
Applied(method, scope, args) == [fn |-> method, this |-> scope, args |-> args]

\* what a function returns when applied
ResultOf(method) == [t |-> "result", v |-> method.v]

\* the outcome of calling a bound function: whether it threw, what it
\* returned and the applications of the method it made
Outcome(threw, ret, invoked) == [threw |-> threw, ret |-> ret, invoked |-> invoked]

\* the function bindSafely returns, with the test of scope.destroyed left out
InvokeUnguarded(h, c, nargs) ==
    Outcome(FALSE, ResultOf(c.method),
            <<Applied(c.method, c.scope, c.args \o nargs)>>)

\* the functions returned, called with nargs (lines 238-242 and 271-277)
Invoke(h, c, nargs) ==
    IF c.safe /\ Nullish(c.scope) THEN Outcome(TRUE, Undef, <<>>)
    ELSE IF c.safe /\ Truthy(ScopeGet(h, c.scope, DestroyedKey))
        THEN Outcome(FALSE, Undef, <<>>)
    ELSE Outcome(FALSE, ResultOf(c.method),
                 <<Applied(c.method, c.scope, c.args \o nargs)>>)

\* the scope object (object 3): a holds a function, b a number; and the same
\* with a falsy a.  The global object holds a function under b.
CallHeaps ==
    { <<Plain(A :> Ref(RootId) @@ B :> Fn(2)), Plain(NoProps),
        Plain(A :> Fn(1) @@ B :> Num(5))>>,
      <<Plain(A :> Ref(RootId) @@ B :> Fn(2)), Plain(NoProps),
        Plain(A :> Num(0) @@ B :> Fn(1) @@ DestroyedKey :> False)>> }

\* the scopes and methods bind and bindSafely are called with
ScopeChoices == {Ref(RootId), Null, Fn(1), Str(2)}
MethodChoices == {Fn(1), Str(1), Str(2), Str(3), Undef, Num(5)}
ArgsChoices == {<<>>, <<Num(5)>>}

\* the values scope.destroyed is set to
DestroyedChoices == {True, StrX}

\* ------------------------------------------------------------------------
\* enyo.uid.  A string is the sequence of its characters.
\* ------------------------------------------------------------------------
MaxUid == 11

Digits == <<"0", "1", "2", "3", "4", "5", "6", "7", "8", "9">>

\* String(n) of a counter value
RECURSIVE Decimal(_)
Decimal(n) ==
    IF n < 10 THEN <<Digits[n + 1]>>
    ELSE Decimal(n \div 10) \o <<Digits[(n % 10) + 1]>>

\* the prefixes enyo.uid is called with: none, 'a' and '1'
NoPrefix == <<>>
Prefixes == {NoPrefix, <<"a">>, <<"1">>}

\* enyo.uid(prefix): String((prefix ? prefix : '') + uidCounter++)
Uid(prefix, counter) ==
    [id |-> prefix \o Decimal(counter), counter |-> counter + 1]

\* ------------------------------------------------------------------------
\* enyo.Source and the registry enyo.sources
\*
\* An instance is its name (NullName once destroy() has nulled it) and the
\* actions it implements; the registry is the sequence of its keys, in the
\* order for-in visits them, each with the instance stored under it.
\* ------------------------------------------------------------------------
MaxSources == 2

\* the names instances are given, and the key null is stored under
SourceNames == {"s", "t"}
NullName == "null"

\* fetch is a method of every enyo.Source; sync is one that a subkind adds
Actions == {"fetch", "sync"}
ImplChoices == {{"fetch"}, {"fetch", "sync"}}

Inst(name, impl) == [name |-> name, impl |-> impl]
Entry(key, inst) == [key |-> key, inst |-> inst]

\* the position of a key in the registry, 0 when it has none
KeyAt(reg, key) ==
    IF \E i \in 1..Len(reg) : reg[i].key = key
        THEN CHOOSE i \in 1..Len(reg) : reg[i].key = key
    ELSE 0

\* sources[key] = inst: a key already there keeps its place
Put(reg, key, inst) ==
    IF KeyAt(reg, key) > 0
        THEN [reg EXCEPT ![KeyAt(reg, key)] = Entry(key, inst)]
    ELSE Append(reg, Entry(key, inst))

\* destroy() with no arguments: enyo.sources[this.name] = null;
\* this.name = null
SourceDestroy(reg, is, i) ==
    [sources |-> Put(reg, is[i].name, 0),
     insts |-> [is EXCEPT ![i].name = NullName]]

\* a call source[action](model, options) with the name bound to the
\* callbacks
Dispatch(inst, nom) == [inst |-> inst, nom |-> nom]

\* for (nom in enyo.sources) of Source.execute with source === true, from
\* the k-th key on: reading [action] of null throws
RECURSIVE ExecuteAll(_, _, _, _, _)
ExecuteAll(reg, is, action, k, done) ==
    IF k > Len(reg) THEN [threw |-> FALSE, dispatched |-> done]
    ELSE IF reg[k].inst = 0 THEN [threw |-> TRUE, dispatched |-> done]
    ELSE ExecuteAll(reg, is, action, k + 1,
                    IF action \in is[reg[k].inst].impl
                        THEN Append(done, Dispatch(reg[k].inst, reg[k].key))
                    ELSE done)

\* ------------------------------------------------------------------------
\* State of the path resolver
\* ------------------------------------------------------------------------
VARIABLES
    heap,       \* the object graph
    heap0,      \* the object graph before the call
    op,         \* the call made: kind, receiver and arguments
    ret,        \* what the call returned
    notified,   \* the notify calls the call made, in order
    setCalls,   \* the calls the call made to a nested object's own set
    assigned    \* the assignments next[part] = val the call executed

pathVars == <<heap, heap0, op, ret, notified, setCalls, assigned>>

NoCall == [kind |-> "none", this |-> RootId, path |-> <<>>, is |-> Undef,
           opts |-> NoOpts]

\* ------------------------------------------------------------------------
\* State of the binding mixin
\* ------------------------------------------------------------------------
VARIABLES
    owners,     \* per owner: _bindingSupportInitialized, bindings, destroyed
    proto,      \* the bindings list of the kind's prototype
    bnds,       \* the Binding instances made so far: owner, live, props
    bcall,      \* the call made: name, receiver and arguments
    bret,       \* what the call returned
    threw,      \* whether the call threw
    destroys,   \* the Bindings whose destroy the call invoked, in order
    created,    \* the Bindings the call instantiated, in order
    writes,     \* the assignments binding.owner = null the call made
    before      \* what the receiver was before the call: its list, whether
                \* it had one, its flag, how many Bindings existed, the
                \* owner of the Binding passed, what the subset held and
                \* which Bindings were live

bindVars ==
    <<owners, proto, bnds, bcall, bret, threw, destroys, created, writes,
      before>>

\* ------------------------------------------------------------------------
\* State of the bound functions
\* ------------------------------------------------------------------------
VARIABLES
    bound,      \* the functions bind and bindSafely returned, in order
    ccall,      \* the call made: name, scope, method, arguments, function
    cret,       \* what the call returned
    cthrew,     \* whether the call threw
    invoked     \* the applications of a bound method the call made

callVars == <<bound, ccall, cret, cthrew, invoked>>

\* ------------------------------------------------------------------------
\* State of enyo.uid
\* ------------------------------------------------------------------------
VARIABLES
    uidCounter, \* the counter of enyo.uid
    uids        \* the strings enyo.uid returned, in order

uidVars == <<uidCounter, uids>>

\* ------------------------------------------------------------------------
\* State of the sources
\* ------------------------------------------------------------------------
VARIABLES
    sources,    \* enyo.sources: its keys in the order they were added, each
                \* with the instance it holds (0 for null)
    insts,      \* the instances of enyo.Source made so far
    scall,      \* the call made: its name, the instance and the action
    dispatched, \* the calls source[action](model, options) execute made
    sthrew      \* whether the call threw

srcVars == <<sources, insts, scall, dispatched, sthrew>>

vars == <<pathVars, bindVars, callVars, uidVars, srcVars>>

SCall(name, inst, action) == [name |-> name, inst |-> inst, action |-> action]
NoSCall == SCall("none", 0, "")

\* var sources = enyo.sources = {}
SrcIdle ==
    /\ sources = <<>>
    /\ insts = <<>>
    /\ scall = NoSCall
    /\ dispatched = <<>>
    /\ sthrew = FALSE

\* var uidCounter = 0
UidIdle ==
    /\ uidCounter = 0
    /\ uids = <<>>

CCall(name, scope, method, args, fn) ==
    [name |-> name, scope |-> scope, method |-> method, args |-> args,
     fn |-> fn]

NoCCall == CCall("none", Undef, Undef, <<>>, 0)

CallIdle ==
    /\ bound = <<>>
    /\ ccall = NoCCall
    /\ cret = Undef
    /\ cthrew = FALSE
    /\ invoked = <<>>

Returned(t, id) == [t |-> t, id |-> id]

NoBCall == [name |-> "none", o |-> 0, args |-> <<>>, subset |-> NoArray, b |-> 0]
BCall(name, o, args, subset, b) ==
    [name |-> name, o |-> o, args |-> args, subset |-> subset, b |-> b]

NewOwner == [initialized |-> FALSE, bindings |-> Inherited, destroyed |-> FALSE]

\* the declarations a kind lists in its bindings block, after concatHandler
\* has given each its kind
Declared(from) == Raw(Hash(from, 0, defaultBindingKind))

ProtoChoices == {NoProto, ProtoList(<<Declared("x")>>)}

NoBefore == [list |-> <<>>, had |-> "none", initialized |-> FALSE, nbnds |-> 0,
             bowner |-> 0, subset |-> <<>>, live |-> {}]

BindIdle ==
    /\ CallIdle
    /\ UidIdle
    /\ SrcIdle
    /\ owners = [o \in Owners |-> NewOwner]
    /\ proto = NoProto
    /\ bnds = <<>>
    /\ bcall = NoBCall
    /\ bret = Returned("none", 0)
    /\ threw = FALSE
    /\ destroys = <<>>
    /\ created = <<>>
    /\ writes = <<>>
    /\ before = NoBefore

PathIdle ==
    /\ heap = Base(Plain(NoProps))
    /\ heap0 = heap
    /\ op = NoCall
    /\ ret = Undef
    /\ notified = <<>>
    /\ setCalls = <<>>
    /\ assigned = <<>>

InitPath ==
    /\ BindIdle
    /\ heap \in InitHeaps
    /\ heap0 = heap
    /\ op = NoCall
    /\ ret = Undef
    /\ notified = <<>>
    /\ setCalls = <<>>
    /\ assigned = <<>>

\* receiver.getPath(path)
CallGetPath ==
    /\ op.kind = "none"
    /\ \E this \in Receivers, path \in Paths :
        /\ op' = [kind |-> "get", this |-> this, path |-> path, is |-> Undef,
                  opts |-> NoOpts]
        /\ ret' = GetPath(heap, this, path)
    /\ UNCHANGED <<heap, heap0, notified, setCalls, assigned, bindVars, callVars, uidVars, srcVars>>

\* receiver.setPath(path, is, opts)
CallSetPath ==
    /\ op.kind = "none"
    /\ \E this \in Receivers, path \in Paths, is \in SetValues, opts \in SetOpts :
        LET r == SetPath(heap, this, path, is, opts)
        IN /\ op' = [kind |-> "set", this |-> this, path |-> path, is |-> is,
                     opts |-> opts]
           /\ heap' = r.heap
           /\ ret' = r.ret
           /\ notified' = r.notified
           /\ setCalls' = r.setCalls
           /\ assigned' = r.assigned
    /\ UNCHANGED <<heap0, bindVars, callVars, uidVars, srcVars>>

NextPath == CallGetPath \/ CallSetPath

SpecPath == InitPath /\ [][NextPath]_vars



InitBind ==
    /\ PathIdle
    /\ CallIdle
    /\ UidIdle
    /\ SrcIdle
    /\ owners = [o \in Owners |-> NewOwner]
    /\ proto \in ProtoChoices
    /\ bnds = <<>>
    /\ bcall = NoBCall
    /\ bret = Returned("none", 0)
    /\ threw = FALSE
    /\ destroys = <<>>
    /\ created = <<>>
    /\ writes = <<>>
    /\ before = NoBefore

Now == BState(owners, proto, bnds, <<>>, <<>>, FALSE)

Before(call) ==
    [list |-> ArrayAt(Now, ReadBindings(Now, call.o)),
     had |-> ReadBindings(Now, call.o).t,
     initialized |-> owners[call.o].initialized,
     nbnds |-> Len(bnds),
     bowner |-> IF call.b # 0 THEN bnds[call.b].owner ELSE 0,
     subset |-> ArrayAt(Now, call.subset),
     live |-> {b \in 1..Len(bnds) : bnds[b].live}]

\* the state after a call that ended in state S and returned r
Commit(call, S, r) ==
    /\ bcall' = call
    /\ owners' = S.owners
    /\ proto' = S.proto
    /\ bnds' = S.bnds
    /\ destroys' = S.destroys
    /\ created' = S.created
    /\ writes' = S.writes
    /\ threw' = S.threw
    /\ bret' = IF S.threw THEN Returned("threw", 0) ELSE r
    /\ before' = Before(call)
    /\ UNCHANGED <<pathVars, callVars, uidVars, srcVars>>

\* the hashes binding() is called with: one hash, or two of which the second
\* names another owner (the first owner may name the others)
ArgChoices(o) ==
    {<<Hash("y", 0, "")>>} \cup
    {<<Hash("x", 0, ""), Hash("", other, "")>> : other \in Owners \ {1, o}}

\* o.binding(args)
CallBinding ==
    \E o \in Owners : \E args \in ArgChoices(o) :
        /\ owners[o].initialized => Len(bnds) < MaxBindings
        /\ ~owners[o].initialized
               => Len(ArrayAt(Now, ReadBindings(Now, o))) < MaxQueue
        /\ LET S == BindingOp(Now, o, args)
           IN Commit(BCall("binding", o, args, NoArray, 0), S,
                     IF owners[o].initialized
                         THEN Returned("binding", Len(S.bnds))
                     ELSE Returned("owner", o))

\* the arrays clearBindings is called with: none, the list of an owner
\* itself, or a new array of one or two Bindings
SubsetChoices ==
    {NoArray} \cup
    {ReadBindings(Now, o) : o \in Owners} \cup
    {FreshArray(<<Bnd(b)>>) : b \in 1..Len(bnds)} \cup
    {FreshArray([b \in 1..Len(bnds) |-> Bnd(b)])}

\* o.clearBindings(subset)
CallClearBindings ==
    \E o \in Owners, subset \in SubsetChoices :
        Commit(BCall("clearBindings", o, <<>>, subset, 0),
               ClearBindingsOp(Now, o, subset), Returned("owner", o))

\* o.removeBinding(b)
CallRemoveBinding ==
    \E o \in Owners, b \in 1..Len(bnds) :
        Commit(BCall("removeBinding", o, <<>>, NoArray, b),
               RemoveBindingOp(Now, o, b), Returned("owner", o))

\* o.constructed(), once in the life of an owner
CallConstructed ==
    \E o \in Owners :
        /\ ~owners[o].initialized
        /\ ~owners[o].destroyed
        /\ Len(bnds) + Len(ArrayAt(Now, ReadBindings(Now, o))) <= MaxBindings
        /\ Commit(BCall("constructed", o, <<>>, NoArray, 0),
                  ConstructedOp(Now, o), Returned("undefined", 0))

\* o.destroy(), once in the life of an owner
CallDestroy ==
    \E o \in Owners :
        /\ ~owners[o].destroyed
        /\ Commit(BCall("destroy", o, <<>>, NoArray, 0),
                  DestroyOp(Now, o), Returned("undefined", 0))

NextBind ==
    \/ CallBinding
    \/ CallClearBindings
    \/ CallRemoveBinding
    \/ CallConstructed
    \/ CallDestroy

SpecBind == InitBind /\ [][NextBind]_vars

\* ------------------------------------------------------------------------
\* Calls of setPath.fast, one after the other on the same object
\* ------------------------------------------------------------------------
InitFast ==
    /\ BindIdle
    /\ heap \in FastHeaps
    /\ heap0 = heap
    /\ op = NoCall
    /\ ret = Undef
    /\ notified = <<>>
    /\ setCalls = <<>>
    /\ assigned = <<>>

\* root.setPath.fast(path, value): setPath.fast.call(root, path, value)
CallSetPathFast ==
    /\ \E path \in FastPaths, is \in SetValues :
        LET r == SetPathFast(heap, RootId, path, is)
        IN /\ op' = [kind |-> "fast", this |-> RootId, path |-> path,
                     is |-> is, opts |-> NoOpts]
           /\ heap' = r.heap
           /\ ret' = r.ret
           /\ notified' = r.notified
           /\ setCalls' = r.setCalls
           /\ assigned' = r.assigned
    /\ heap0' = heap
    /\ UNCHANGED <<bindVars, callVars, uidVars, srcVars>>

NextFast == CallSetPathFast

SpecFast == InitFast /\ [][NextFast]_vars

\* ------------------------------------------------------------------------
\* Writes on an object whose properties are bound
\* ------------------------------------------------------------------------
InitProp ==
    /\ BindIdle
    /\ heap = PropHeap
    /\ heap0 = heap
    /\ op = NoCall
    /\ ret = Undef
    /\ notified = <<>>
    /\ setCalls = <<>>
    /\ assigned = <<>>

\* X.binding({from: f, to: 'b', target: Y})
CallBindingX ==
    \E f \in {"x", "y"} :
        /\ owners[1].initialized => Len(bnds) < MaxLinks
        /\ ~owners[1].initialized
               => Len(ArrayAt(Now, ReadBindings(Now, 1))) < MaxLinks
        /\ LET S == BindingOp(Now, 1, <<Hash(f, 0, "")>>)
           IN Commit(BCall("binding", 1, <<Hash(f, 0, "")>>, NoArray, 0), S,
                     IF owners[1].initialized
                         THEN Returned("binding", Len(S.bnds))
                     ELSE Returned("owner", 1))

\* receiver.setPath(path, is, opts) with the notify hook of the object
\* written running inside the call; bcall tells that this call was the last
CallWrite ==
    /\ \E target \in PropTargets, is \in SetValues, opts \in PropOpts :
        LET this == target[1]
            path == target[2]
            r == SetPath(heap, this, path, is, opts)
        IN /\ op' = [kind |-> "write", this |-> this, path |-> path,
                     is |-> is, opts |-> opts]
           /\ heap' = Propagate(r.heap, Now, r.notified)
           /\ ret' = r.ret
           /\ notified' = r.notified
           /\ setCalls' = r.setCalls
           /\ assigned' = r.assigned
    /\ heap0' = heap
    /\ bcall' = BCall("setPath", 0, <<>>, NoArray, 0)
    /\ UNCHANGED <<owners, proto, bnds, bret, threw, destroys, created, writes,
                   before, callVars, uidVars, srcVars>>

\* X.constructed(), once
CallConstructedX ==
    /\ ~owners[1].initialized
    /\ ~owners[1].destroyed
    /\ Commit(BCall("constructed", 1, <<>>, NoArray, 0),
              ConstructedOp(Now, 1), Returned("undefined", 0))

\* X.destroy(), once
CallDestroyX ==
    /\ ~owners[1].destroyed
    /\ Commit(BCall("destroy", 1, <<>>, NoArray, 0),
              DestroyOp(Now, 1), Returned("undefined", 0))

NextProp ==
    \/ CallBindingX
    \/ CallConstructedX
    \/ CallDestroyX
    \/ CallWrite

SpecProp == InitProp /\ [][NextProp]_vars

\* ------------------------------------------------------------------------
\* Binding functions to scopes and calling them
\* ------------------------------------------------------------------------
InitCall ==
    /\ BindIdle
    /\ heap \in CallHeaps
    /\ heap0 = heap
    /\ op = NoCall
    /\ ret = Undef
    /\ notified = <<>>
    /\ setCalls = <<>>
    /\ assigned = <<>>

\* the state after bind or bindSafely ended with outcome r
Made(call, r) ==
    /\ ccall' = call
    /\ cthrew' = r.threw
    /\ cret' = IF r.threw THEN Undef ELSE Fn(Len(bound) + 1)
    /\ bound' = IF r.threw THEN bound
                ELSE Append(bound,
                            [r.fn EXCEPT !.wasDestroyed =
                                Truthy(ScopeGet(heap, r.fn.scope, DestroyedKey))])
    /\ invoked' = <<>>
    /\ UNCHANGED <<pathVars, bindVars, uidVars, srcVars>>

\* enyo.bind(scope, method, args...)
CallBind ==
    \E scope \in ScopeChoices, method \in MethodChoices, args \in ArgsChoices :
        LET r == Bind(heap, scope, method, args)
        IN /\ r.threw \/ Len(bound) < MaxBound
           /\ Made(CCall("bind", scope, method, args, 0), r)

\* enyo.bindSafely(scope, method, args...)
CallBindSafely ==
    \E scope \in ScopeChoices, method \in MethodChoices, args \in ArgsChoices :
        LET r == BindSafely(heap, scope, method, args)
        IN /\ r.threw \/ Len(bound) < MaxBound
           /\ Made(CCall("bindSafely", scope, method, args, 0), r)

\* a call of a function that bind or bindSafely returned
CallBound ==
    \E i \in 1..Len(bound), nargs \in ArgsChoices :
        LET r == Invoke(heap, bound[i], nargs)
        IN /\ ccall' = CCall("call", Undef, Undef, nargs, i)
           /\ cthrew' = r.threw
           /\ cret' = r.ret
           /\ invoked' = r.invoked
           /\ UNCHANGED <<bound, pathVars, bindVars, uidVars, srcVars>>

\* scope.destroyed = v on the scope object
SetDestroyed ==
    \E v \in DestroyedChoices :
        /\ Lookup(heap, RootId, DestroyedKey) # v
        /\ heap' = Store(heap, RootId, DestroyedKey, v)
        /\ ccall' = CCall("destroyed", Ref(RootId), Undef, <<>>, 0)
        /\ cthrew' = FALSE
        /\ cret' = Undef
        /\ invoked' = <<>>
        /\ UNCHANGED <<heap0, op, ret, notified, setCalls, assigned, bound,
                       bindVars, uidVars, srcVars>>

NextCall ==
    \/ CallBind
    \/ CallBindSafely
    \/ CallBound
    \/ SetDestroyed

SpecCall == InitCall /\ [][NextCall]_vars

\* ------------------------------------------------------------------------
\* Calls of enyo.uid
\* ------------------------------------------------------------------------
InitUid ==
    /\ BindIdle
    /\ PathIdle

\* enyo.uid(prefix)
CallUid ==
    /\ uidCounter < MaxUid
    /\ \E prefix \in Prefixes :
          LET r == Uid(prefix, uidCounter)
          IN /\ uidCounter' = r.counter
             /\ uids' = Append(uids, r.id)
    /\ UNCHANGED <<pathVars, bindVars, callVars, srcVars>>

NextUid == CallUid

SpecUid == InitUid /\ [][NextUid]_vars

\* ------------------------------------------------------------------------
\* Sources made, destroyed and executed on
\* ------------------------------------------------------------------------
InitSrc ==
    /\ BindIdle
    /\ PathIdle

\* new enyo.Source({name: name}), or an instance of a subkind
CallCreate ==
    /\ Len(insts) < MaxSources
    /\ \E name \in SourceNames, impl \in ImplChoices :
          /\ insts' = Append(insts, Inst(name, impl))
          /\ sources' = Put(sources, name, Len(insts) + 1)
          /\ scall' = SCall("create", Len(insts) + 1, "")
    /\ dispatched' = <<>>
    /\ sthrew' = FALSE
    /\ UNCHANGED <<pathVars, bindVars, callVars, uidVars>>

\* source.destroy()
CallSourceDestroy ==
    /\ \E i \in 1..Len(insts) :
          LET r == SourceDestroy(sources, insts, i)
          IN /\ sources' = r.sources
             /\ insts' = r.insts
             /\ scall' = SCall("destroy", i, "")
    /\ dispatched' = <<>>
    /\ sthrew' = FALSE
    /\ UNCHANGED <<pathVars, bindVars, callVars, uidVars>>

\* enyo.Source.execute(action, model, {source: true, ...})
CallExecute ==
    /\ \E action \in Actions :
          LET r == ExecuteAll(sources, insts, action, 1, <<>>)
          IN /\ scall' = SCall("execute", 0, action)
             /\ dispatched' = r.dispatched
             /\ sthrew' = r.threw
    /\ UNCHANGED <<sources, insts, pathVars, bindVars, callVars, uidVars>>

NextSrc ==
    \/ CallCreate
    \/ CallSourceDestroy
    \/ CallExecute

SpecSrc == InitSrc /\ [][NextSrc]_vars

\* ------------------------------------------------------------------------
\* Properties of the path resolver
\* ------------------------------------------------------------------------

\* the segments of a path whose leading dots, if any, are dropped
Segments(path) == Split(StripDots(path))

\* a dotted path all of whose segments are non-empty
WellFormed(path) ==
    /\ path # <<>>
    /\ \A i \in 1..Len(Split(path)) : Split(path)[i] # <<>>

\* Indexing one segment by hand: a non-generated getter mapping is invoked,
\* else a nested object's own get is called, else the property is read.
IndexOne(h, root, cur, seg) ==
    IF ~IsObj(cur) THEN Undef
    ELSE IF seg \in DOMAIN h[cur.v].getters /\ ~h[cur.v].getters[seg].generated
        THEN h[cur.v].getters[seg].result
    ELSE IF cur.v # root /\ h[cur.v].get = "own"
        THEN (IF seg \in DOMAIN h[cur.v].getv THEN h[cur.v].getv[seg] ELSE Undef)
    ELSE (IF seg \in DOMAIN h[cur.v].props THEN h[cur.v].props[seg] ELSE Undef)

\* Indexing the first k segments by hand, from the root
RECURSIVE IndexTo(_, _, _, _)
IndexTo(h, root, segs, k) ==
    IF k = 0 THEN Ref(root)
    ELSE IndexOne(h, root, IndexTo(h, root, segs, k - 1), segs[k])

\* every intermediate segment resolves to an object
IntermediatesExist(h, root, segs) ==
    \A k \in 1..(Len(segs) - 1) : IsObj(IndexTo(h, root, segs, k))

\* C1: on a path with non-empty segments whose intermediate segments all
\* resolve to objects, getPath returns what indexing segment by segment
\* returns, a non-generated getter mapping taking precedence over a nested
\* object's own get, and that over the plain property.
C1_GetPathIndexes ==
    (/\ op.kind = "get"
     /\ WellFormed(op.path)
     /\ IntermediatesExist(heap0, RootOf(op.this), Split(op.path)))
    => ret = IndexTo(heap0, RootOf(op.this), Split(op.path), Len(Split(op.path)))

\* a read of root.a.b that went through the root's non-generated getter for
\* a, which hides the stored root.a
C1_Witness ==
    /\ op.kind = "get"
    /\ op.this = RootId
    /\ op.path = <<"a", Dot, "b">>
    /\ A \in DOMAIN heap0[RootId].getters
    /\ ~heap0[RootId].getters[A].generated
    /\ heap0[RootId].getters[A].result # heap0[RootId].props[A]
    /\ ret = Num(5)

\* segment k is missing: the segments before it are non-empty and resolve to
\* objects, and k itself is non-empty, is not a property of its parent and
\* resolves to undefined
MissingAt(h, root, segs, k) ==
    /\ \A i \in 1..k : segs[i] # <<>>
    /\ \A i \in 1..(k - 1) : IsObj(IndexTo(h, root, segs, i))
    /\ segs[k] \notin DOMAIN h[IndexTo(h, root, segs, k - 1).v].props
    /\ IndexTo(h, root, segs, k) = Undef

\* C2: when an intermediate segment of the path is missing, getPath returns
\* undefined.
C2_MissingIsUndefined ==
    (/\ op.kind = "get"
     /\ \E k \in 1..(Len(Segments(op.path)) - 1) :
            MissingAt(heap0, RootOf(op.this), Segments(op.path), k))
    => ret = Undef

\* a read of root.a.b.a where root.a exists and has no b
C2_Witness ==
    /\ op.kind = "get"
    /\ op.this = RootId
    /\ op.path = <<"a", Dot, "b", Dot, "a">>
    /\ IsObj(Lookup(heap0, RootId, A))
    /\ MissingAt(heap0, RootId, Segments(op.path), 2)
    /\ ret = Undef

\* the object graph as seen from a value, unfolded to depth d: what a caller
\* can observe of it, whatever the identities of the objects
NoKids == [k \in {} |-> 0]

RECURSIVE View(_, _, _)
View(h, val, d) ==
    IF IsObj(val) /\ d > 0
        THEN [t |-> "object", v |-> 0,
              caps |-> <<h[val.v].getters, h[val.v].get, h[val.v].getv,
                         h[val.v].set, h[val.v].notify>>,
              kids |-> [k \in DOMAIN h[val.v].props |->
                            View(h, h[val.v].props[k], d - 1)]]
    ELSE [t |-> val.t, v |-> IF IsObj(val) THEN 0 ELSE val.v,
          caps |-> <<>>, kids |-> NoKids]

Graph(h) == <<View(h, Ref(GlobalId), MaxPathLen + 1),
              View(h, Ref(RootId), MaxPathLen + 1)>>

Last(q) == q[Len(q)]

\* the same call made again on the graph the first call left
Again == SetPath(heap, op.this, op.path, op.is, op.opts)

Wrote == assigned # <<>> /\ Last(assigned).kind = "write"

SilentGiven == op.opts.kind = "obj" /\ "silent" \in DOMAIN op.opts.o /\ op.opts.o["silent"]
ForceGiven ==
    \/ op.opts.kind = "bool" /\ op.opts.b
    \/ op.opts.kind = "obj" /\ "force" \in DOMAIN op.opts.o /\ op.opts.o["force"]
ComparatorGivenSaysYes ==
    op.opts.kind = "obj" /\ "comparator" \in DOMAIN op.opts.o
        /\ op.opts.o["comparator"] = "yes"

\* the value the object written held for the segment before the call, as the
\* object reports it: through its own get if it has one
Previous ==
    LET n == Last(assigned).on.v
        k == Last(assigned).part
    IN IF n \notin DOMAIN heap0 THEN Undef
       ELSE IF heap0[n].get = "own"
           THEN (IF k \in DOMAIN heap0[n].getv THEN heap0[n].getv[k] ELSE Undef)
       ELSE (IF k \in DOMAIN heap0[n].props THEN heap0[n].props[k] ELSE Undef)

WroteObserved ==
    /\ op.kind = "set"
    /\ Wrote
    /\ IsObj(Last(assigned).on)
    /\ heap[Last(assigned).on.v].notify

C4_WitnessSilent ==
    /\ WroteObserved
    /\ ForceGiven
    /\ SilentGiven
    /\ Previous = Num(5)
    /\ op.is = Num(7)
    /\ notified = <<>>

\* the object has no accessor members: no getter mapping, no get, no set
IsPlain(n) == n.getters = NoProps /\ n.get = "none" /\ n.set = "none"

\* cur holds the chain segs[i..n]: a fresh object holding nothing but the
\* next segment at every intermediate segment, and val at the last
RECURSIVE ChainFrom(_, _, _, _, _, _)
ChainFrom(h, h0, cur, segs, i, val) ==
    LET c == Lookup(h, cur, segs[i])
    IN IF i = Len(segs) THEN c = val
       ELSE /\ IsObj(c)
            /\ c.v \notin DOMAIN h0
            /\ h[c.v] = Plain(h[c.v].props)
            /\ DOMAIN h[c.v].props = {segs[i + 1]}
            /\ ChainFrom(h, h0, c.v, segs, i + 1, val)

\* C5: setPath with default options on a plain root that lacks the first of
\* the segments s1..sn creates a new object for each of s1..s(n-1), nested
\* in path order and holding nothing but the next segment, stores the value
\* at sn, and leaves every other object and every other key of the root
\* as they were.
C5_AutoVivify ==
    LET root == RootOf(op.this)
        segs == Split(op.path)
    IN (/\ op.kind = "set"
        /\ op.opts = NoOpts
        /\ WellFormed(op.path)
        /\ IsPlain(heap0[root])
        /\ Len(segs) > 1 => segs[1] \notin DOMAIN heap0[root].props)
       => /\ ChainFrom(heap, heap0, root, segs, 1, op.is)
          /\ Len(heap) = Len(heap0) + Len(segs) - 1
          /\ \A id \in DOMAIN heap0 \ {root} : heap[id] = heap0[id]
          /\ DOMAIN heap[root].props = DOMAIN heap0[root].props \cup {segs[1]}
          /\ \A k \in DOMAIN heap0[root].props \ {segs[1]} :
                 heap[root].props[k] = heap0[root].props[k]
          /\ [heap[root] EXCEPT !.props = NoProps]
                 = [heap0[root] EXCEPT !.props = NoProps]

\* root.setPath('a.b.a', 5) on the empty root {}
C5_Witness ==
    /\ op.kind = "set"
    /\ op.opts = NoOpts
    /\ op.this = RootId
    /\ op.path = <<"a", Dot, "b", Dot, "a">>
    /\ op.is = Num(5)
    /\ heap0[RootId] = Plain(NoProps)
    /\ Len(heap) = Len(heap0) + 2
    /\ GetPath(heap, RootId, op.path) = Num(5)

\* what setPath reaches after the first k segments, reading as it reads
RECURSIVE SetReach(_, _, _, _)
SetReach(h, base, segs, k) ==
    IF k = 0 THEN Ref(base)
    ELSE ReadNext(h, base, SetReach(h, base, segs, k - 1), segs[k])

\* segment k is absent for a write: the segments before it are non-empty and
\* lead to objects or primitives, and k is no property of what they lead to
AbsentAt(h, base, segs, k) ==
    /\ \A i \in 1..k : segs[i] # <<>>
    /\ \A i \in 1..(k - 1) : Truthy(SetReach(h, base, segs, i))
    /\ LET parent == SetReach(h, base, segs, k - 1)
       IN IsObj(parent) => segs[k] \notin DOMAIN h[parent.v].props
    /\ SetReach(h, base, segs, k) = Undef

CreateFalseGiven ==
    op.opts.kind = "obj" /\ "create" \in DOMAIN op.opts.o /\ ~op.opts.o["create"]

\* C6: setPath with create:false on a path one of whose intermediate
\* segments is absent changes nothing in the graph, executes no assignment,
\* calls no notify hook and returns the root.
C6_NoCreate ==
    (/\ op.kind = "set"
     /\ CreateFalseGiven
     /\ \E k \in 1..(Len(Segments(op.path)) - 1) :
            AbsentAt(heap0, RootOf(op.this), Segments(op.path), k))
    => /\ heap = heap0
       /\ assigned = <<>>
       /\ notified = <<>>
       /\ ret = Ref(RootOf(op.this))

\* root.setPath('a.b.a', 5, {create: false}) on the empty root {}
C6_Witness ==
    /\ op.kind = "set"
    /\ CreateFalseGiven
    /\ op.this = RootId
    /\ op.path = <<"a", Dot, "b", Dot, "a">>
    /\ heap0[RootId] = Plain(NoProps)
    /\ heap = heap0
    /\ ret = Ref(RootId)

\* C7: every call of setPath returns the root it was called on (the global
\* object standing for enyo), on every exit.
C7_ReturnsRoot ==
    op.kind = "set" => ret = Ref(RootOf(op.this))

\* ------------------------------------------------------------------------
\* Properties of the binding mixin
\* ------------------------------------------------------------------------

\* the bindings list of an owner as it reads it (empty when it has none)
ListOf(o) == ArrayAt(Now, ReadBindings(Now, o))

\* the owner a declaration ends with: the one it names, else the receiver
OwnerFor(props, o) == IF props.owner # 0 THEN props.owner ELSE o

\* C8: constructed() on an owner with k queued raw declarations leaves a list
\* of its own holding exactly k Binding instances, made by this call, one
\* per declaration and in declaration order, and no raw declaration.
C8_DeclaredBecomeLive ==
    bcall.name = "constructed"
    => LET o == bcall.o
           q == before.list
       IN /\ ~threw
          /\ owners[o].initialized
          /\ Len(created) = Len(q)
          /\ Len(ListOf(o)) = Len(q)
          /\ before.had # "none" => owners[o].bindings.t = "own"
          /\ \A i \in 1..Len(q) :
                /\ q[i].t = "raw"
                /\ created[i] = before.nbnds + i
                /\ ListOf(o)[i] = Bnd(created[i])
                /\ bnds[created[i]].live
                /\ bnds[created[i]].props.from = q[i].props.from
                /\ bnds[created[i]].props.owner = OwnerFor(q[i].props, o)

\* an owner activated with the declarations x and y queued, in that order
C8_Witness ==
    /\ bcall.name = "constructed"
    /\ Len(before.list) = 2
    /\ before.list[1].props.from = "x"
    /\ before.list[2].props.from = "y"
    /\ Len(created) = 2
    /\ ListOf(bcall.o) = <<Bnd(created[1]), Bnd(created[2])>>
    /\ bnds[created[1]].props.from = "x"
    /\ bnds[created[2]].props.from = "y"

\* C9: destroy() on a live owner calls destroy once on each Binding of its
\* list, leaves none of them live and leaves the list null.
C9_DestroyClearsAll ==
    (bcall.name = "destroy" /\ before.initialized)
    => LET o == bcall.o
           q == before.list
       IN /\ ~threw
          /\ owners[o].bindings = NullList
          /\ Len(destroys) = Len(q)
          /\ \A i \in 1..Len(q) :
                /\ q[i].t = "bnd"
                /\ destroys[i] = q[i].id
                /\ ~bnds[q[i].id].live

\* a live owner destroyed while its list held two Bindings
C9_Witness ==
    /\ bcall.name = "destroy"
    /\ before.initialized
    /\ Len(before.list) = 2
    /\ Len(destroys) = 2
    /\ destroys[1] # destroys[2]
    /\ owners[bcall.o].bindings = NullList

\* the hash binding() makes of its arguments: later hashes override earlier
\* ones key by key, the owner defaults to the receiver and the kind to the
\* default kind
RECURSIVE LastGiven(_, _)
LastGiven(args, key) ==
    IF args = <<>> THEN NoHash[key]
    ELSE IF Last(args)[key] # NoHash[key] THEN Last(args)[key]
    ELSE LastGiven(SubSeq(args, 1, Len(args) - 1), key)

Merged(o, args) ==
    Hash(LastGiven(args, "from"),
         IF LastGiven(args, "owner") # 0 THEN LastGiven(args, "owner") ELSE o,
         IF LastGiven(args, "kind") # "" THEN LastGiven(args, "kind")
         ELSE defaultBindingKind)

\* C10: binding() on a live owner instantiates one Binding, appends it as the
\* last element of the owner's list and returns it; on an owner not yet live
\* it appends the merged hash, instantiates nothing and returns the owner.
C10_BindingLiveOrQueued ==
    bcall.name = "binding"
    => LET o == bcall.o
           n == before.nbnds + 1
       IN /\ ~threw
          /\ owners[o].initialized = before.initialized
          /\ before.initialized
                => /\ created = <<n>>
                   /\ Len(bnds) = n
                   /\ bnds[n].live
                   /\ bnds[n].props = Merged(o, bcall.args)
                   /\ ListOf(o) = Append(before.list, Bnd(n))
                   /\ bret = Returned("binding", n)
          /\ ~before.initialized
                => /\ created = <<>>
                   /\ Len(bnds) = before.nbnds
                   /\ ListOf(o) = Append(before.list, Raw(Merged(o, bcall.args)))
                   /\ bret = Returned("owner", o)

\* binding() on a live owner whose list already held a Binding
C10_Witness ==
    /\ bcall.name = "binding"
    /\ before.initialized
    /\ Len(before.list) = 1
    /\ Len(ListOf(bcall.o)) = 2
    /\ bret = Returned("binding", Len(bnds))
    /\ Last(ListOf(bcall.o)) = Bnd(Len(bnds))

\* binding() on an owner not yet live whose queue already held a declaration
C10_WitnessQueued ==
    /\ bcall.name = "binding"
    /\ ~before.initialized
    /\ Len(before.list) = 1
    /\ Len(ListOf(bcall.o)) = 2
    /\ Last(ListOf(bcall.o)).t = "raw"
    /\ bret = Returned("owner", bcall.o)

\* a list without the first occurrence of an element
Without(list, el) ==
    IF IndexOf(list, el) = 0 THEN list ELSE Splice(list, IndexOf(list, el))

\* C11: removeBinding(b) on an owner that has a list takes b out of the list,
\* calls no destroy and leaves b live, nulls b's owner reference only when it
\* was this owner, keeps the other elements in their order and returns the
\* owner.
C11_RemoveDetaches ==
    (bcall.name = "removeBinding" /\ before.had # "none")
    => LET o == bcall.o
           b == bcall.b
       IN /\ ~threw
          /\ destroys = <<>>
          /\ created = <<>>
          /\ ListOf(o) = Without(before.list, Bnd(b))
          /\ IndexOf(ListOf(o), Bnd(b)) = 0
          /\ bnds[b].owner = (IF before.bowner = o THEN 0 ELSE before.bowner)
          /\ bret = Returned("owner", o)

\* a Binding declared with another owner was removed from the list of the
\* object that made it, and kept that other owner
C11_Witness ==
    /\ bcall.name = "removeBinding"
    /\ IndexOf(before.list, Bnd(bcall.b)) > 0
    /\ before.bowner # 0
    /\ before.bowner # bcall.o
    /\ bnds[bcall.b].owner = before.bowner
    /\ IndexOf(ListOf(bcall.o), Bnd(bcall.b)) = 0
    /\ bret = Returned("owner", bcall.o)

\* a Binding owned by the receiver was removed from its list of two
C11_WitnessOwned ==
    /\ bcall.name = "removeBinding"
    /\ Len(before.list) = 2
    /\ before.bowner = bcall.o
    /\ bnds[bcall.b].owner = 0
    /\ bnds[bcall.b].live
    /\ Len(ListOf(bcall.o)) = 1

\* the array clearBindings was to clear, as it was when the call was made
ToClear == IF bcall.subset.t # "none" THEN before.subset ELSE before.list

\* the elements of a list are Bindings that were live before the call
AllLive(list) ==
    \A i \in 1..Len(list) : list[i].t = "bnd" /\ list[i].id \in before.live

Destroyed(b) == \E i \in 1..Len(destroys) : destroys[i] = b

\* C12: clearBindings(subset) calls destroy on every Binding of subset,
\* whatever array of live Bindings subset is, the owner's own list included;
\* without a subset it calls destroy on every Binding of the owner's list;
\* it returns the owner.
C12_ClearDestroysAll ==
    (/\ bcall.name = "clearBindings"
     /\ bcall.subset.t # "none" \/ before.had # "none"
     /\ AllLive(ToClear))
    => /\ ~threw
       /\ \A i \in 1..Len(ToClear) : Destroyed(ToClear[i].id)
       /\ bret = Returned("owner", bcall.o)

\* the same for a subset that is an array of its own, or no subset
C12_ClearDestroysCopy ==
    (/\ bcall.name = "clearBindings"
     /\ bcall.subset.t \in {"none", "fresh"}
     /\ bcall.subset.t # "none" \/ before.had # "none"
     /\ AllLive(ToClear))
    => /\ ~threw
       /\ \A i \in 1..Len(ToClear) : Destroyed(ToClear[i].id)
       /\ \A i \in 1..Len(ToClear) : ~bnds[ToClear[i].id].live
       /\ Len(destroys) = Len(ToClear)
       /\ bret = Returned("owner", bcall.o)

\* an owner holds a live Binding: one is in its list
HoldsLive(os, bs, o) ==
    /\ os[o].bindings.t = "own"
    /\ \E i \in 1..Len(os[o].bindings.list) :
           /\ os[o].bindings.list[i].t = "bnd"
           /\ bs[os[o].bindings.list[i].id].live

\* C13 as stated: the live flag never goes back to false, and a list that
\* destroy has set to null is null in every later state, whatever is called,
\* so that a destroyed owner holds no live Binding.
C13_Original ==
    [][\A o \in Owners :
          /\ owners[o].initialized => owners'[o].initialized
          /\ (owners[o].destroyed /\ owners[o].bindings = NullList)
                => /\ owners'[o].bindings = NullList
                   /\ ~HoldsLive(owners', bnds', o)]_vars

\* What does hold of the lifecycle: the live flag never goes back to false
\* and a destroyed owner stays destroyed; a list that destroy has set to null stays null under
\* removeBinding and clearBindings, which throw on it when they read it, and
\* under every call on another owner; binding() on the destroyed owner makes
\* a new list holding the one element it adds.
C13_Lifecycle ==
    [][\A o \in Owners :
          /\ owners[o].initialized => owners'[o].initialized
          /\ owners[o].destroyed => owners'[o].destroyed
          /\ (owners[o].destroyed /\ owners[o].bindings = NullList)
                => IF bcall'.name = "binding" /\ bcall'.o = o
                       THEN /\ owners'[o].bindings.t = "own"
                            /\ Len(owners'[o].bindings.list) = 1
                            /\ owners[o].initialized
                                  => HoldsLive(owners', bnds', o)
                   ELSE /\ owners'[o].bindings = NullList
                        /\ (bcall'.o = o /\ bcall'.name = "removeBinding")
                              => threw'
                        /\ (bcall'.o = o /\ bcall'.name = "clearBindings"
                               /\ bcall'.subset = NoArray)
                              => threw']_vars

\* removeBinding threw on a destroyed owner and left its list null
C13_Witness ==
    /\ bcall.name = "removeBinding"
    /\ owners[bcall.o].initialized
    /\ owners[bcall.o].destroyed
    /\ before.had = "none"
    /\ threw
    /\ owners[bcall.o].bindings = NullList

\* binding() on a destroyed owner that had been live
C13_WitnessBinding ==
    /\ bcall.name = "binding"
    /\ owners[bcall.o].destroyed
    /\ before.had = "none"
    /\ before.initialized
    /\ HoldsLive(owners, bnds, bcall.o)

\* a live Binding made by X observes the property
LiveLink(part) == Observing(Now, XId, part) # {}

ReachesSetAt(h, base, segs, k) ==
    /\ \A i \in 1..Len(segs) : segs[i] # <<>>
    /\ \A i \in 1..k : Truthy(SetReach(h, base, segs, i))
    /\ HasOwnSet(h, base, SetReach(h, base, segs, k))
    /\ \A i \in 1..(k - 1) : ~HasOwnSet(h, base, SetReach(h, base, segs, i))

\* the options the caller asked for
GivenOptions ==
    [create |-> ~CreateFalseGiven,
     silent |-> SilentGiven,
     force |-> ForceGiven,
     comparator |-> IF op.opts.kind = "obj" /\ "comparator" \in DOMAIN op.opts.o
                        THEN op.opts.o["comparator"] ELSE "none"]

\* C15: when the walk of setPath reaches a node other than the root that has
\* its own set, that set is called exactly once, with the rest of the path,
\* the value and the options of the call; the root is returned and the outer
\* call writes no terminal value and calls no notify hook.
C15_Delegates ==
    LET base == RootOf(op.this)
        segs == Segments(op.path)
    IN \A k \in 1..(Len(segs) - 1) :
          (op.kind = "set" /\ ReachesSetAt(heap0, base, segs, k))
          => /\ Len(setCalls) = 1
             /\ setCalls[1].node = SetReach(heap0, base, segs, k).v
             /\ setCalls[1].path = Join(SubSeq(segs, k + 1, Len(segs)))
             /\ setCalls[1].is = op.is
             /\ setCalls[1].opts = GivenOptions
             /\ ret = Ref(base)
             /\ ~Wrote
             /\ notified = <<>>
             /\ heap = heap0

\* the same when the third argument is an options hash or is left out
C15_DelegatesHash ==
    LET base == RootOf(op.this)
        segs == Segments(op.path)
    IN \A k \in 1..(Len(segs) - 1) :
          (/\ op.kind = "set"
           /\ op.opts.kind # "bool"
           /\ ReachesSetAt(heap0, base, segs, k))
          => /\ Len(setCalls) = 1
             /\ setCalls[1].node = SetReach(heap0, base, segs, k).v
             /\ setCalls[1].path = Join(SubSeq(segs, k + 1, Len(segs)))
             /\ setCalls[1].is = op.is
             /\ setCalls[1].opts = GivenOptions
             /\ ret = Ref(base)
             /\ ~Wrote
             /\ notified = <<>>
             /\ heap = heap0

\* a.set('b.a', 5, opts) was called for root.setPath('a.b.a', 5)
C15_Witness ==
    /\ op.kind = "set"
    /\ op.this = RootId
    /\ op.path = <<"a", Dot, "b", Dot, "a">>
    /\ ReachesSetAt(heap0, RootId, Segments(op.path), 1)
    /\ Len(setCalls) = 1
    /\ setCalls[1].path = <<"b", Dot, "a">>

\* segment k resolves to a falsy value: the segments up to it are non-empty
\* and those before it resolve to objects
FalsyAt(h, root, segs, k) ==
    /\ \A i \in 1..k : segs[i] # <<>>
    /\ \A i \in 1..(k - 1) : IsObj(IndexTo(h, root, segs, i))
    /\ ~Truthy(IndexTo(h, root, segs, k))

\* C16: on a path of two segments or more (none of them empty), when a
\* segment that is not the last resolves to a falsy value (undefined, null,
\* 0, false, ''), getPath returns undefined.
C16_FalsyIsUndefined ==
    (/\ op.kind = "get"
     /\ WellFormed(StripDots(op.path))
     /\ \E k \in 1..(Len(Segments(op.path)) - 1) :
            FalsyAt(heap0, RootOf(op.this), Segments(op.path), k))
    => ret = Undef

\* what getPath does return there: the falsy value itself
C16_FalsyIsReturned ==
    \A k \in 1..(Len(Segments(op.path)) - 1) :
        (/\ op.kind = "get"
         /\ FalsyAt(heap0, RootOf(op.this), Segments(op.path), k))
        => ret = IndexTo(heap0, RootOf(op.this), Segments(op.path), k)

\* the call made with one leading dot less
Undotted == Tail(op.path)

UndottedSet == SetPath(heap0, op.this, Undotted, op.is, op.opts)

\* the call did what the call with one leading dot less does
SameAsUndotted ==
    /\ op.kind = "get" => ret = GetPath(heap0, op.this, Undotted)
    /\ op.kind = "set"
          => /\ heap = UndottedSet.heap
             /\ ret = UndottedSet.ret
             /\ notified = UndottedSet.notified
             /\ setCalls = UndottedSet.setCalls
             /\ assigned = UndottedSet.assigned

OnlyDots(path) == path # <<>> /\ \A i \in 1..Len(path) : path[i] = Dot

\* a path made only of dots reads as undefined, writes nothing and has the
\* root returned
DotsAreNoPath ==
    (op.kind # "none" /\ OnlyDots(op.path))
    => /\ op.kind = "get" => ret = Undef
       /\ op.kind = "set"
             => /\ heap = heap0
                /\ assigned = <<>>
                /\ notified = <<>>
                /\ setCalls = <<>>
                /\ ret = Ref(RootOf(op.this))

\* C17 as stated: a dot put before any path P, the empty one included,
\* changes neither what getPath returns nor what setPath does (so that any
\* number of them does not); a path of dots only reads as undefined and
\* writes nothing.
C17_Original ==
    /\ (op.kind # "none" /\ op.path # <<>> /\ Head(op.path) = Dot)
          => SameAsUndotted
    /\ DotsAreNoPath

\* C17: a dot put before a non-empty path P changes neither what getPath
\* returns nor what setPath does, returns and notifies (so that any number
\* of them does not); a path of dots only reads as undefined and writes
\* nothing, the root being returned.
C17_LeadingDots ==
    /\ (/\ op.kind # "none"
        /\ op.path # <<>>
        /\ Head(op.path) = Dot
        /\ Undotted # <<>>)
          => SameAsUndotted
    /\ DotsAreNoPath

\* root.getPath('..a.b') read the 7 that root.getPath('a.b') reads
C17_Witness ==
    /\ op.kind = "get"
    /\ op.this = RootId
    /\ op.path = <<Dot, Dot, "a", Dot, "b">>
    /\ ret = Num(7)
    /\ GetPath(heap0, RootId, <<"a", Dot, "b">>) = Num(7)

\* root.setPath('..a', 7) wrote root.a and notified
C17_WitnessSet ==
    /\ op.kind = "set"
    /\ op.this = RootId
    /\ op.path = <<Dot, Dot, "a">>
    /\ op.is = Num(7)
    /\ Lookup(heap, RootId, A) = Num(7)
    /\ Len(notified) = 1

\* the key is an entry of the _computed map of the object before the call
DeclaredComputed == op.path \in DOMAIN heap0[op.this].computed

\* the value the object had for the key before the call, as its getter
\* mapping reports it
FastPrevious ==
    IF op.path \in DOMAIN heap0[op.this].getters
        THEN heap0[op.this].getters[op.path].result
    ELSE IF op.path \in DOMAIN heap0[op.this].props
        THEN heap0[op.this].props[op.path]
    ELSE Undef

\* C18: setPath.fast on a computed property stores nothing, calls
\* notifyObservers not at all and returns the node; on another property it
\* stores the value, leaves the other properties alone and calls
\* notifyObservers(path, old, new), once, exactly when the old value, read
\* through the getter mapping, !== the new one.
C18_Fast ==
    op.kind = "fast"
    => /\ ret = Ref(op.this)
       /\ DeclaredComputed => (heap = heap0 /\ notified = <<>>)
       /\ ~DeclaredComputed
             => /\ Lookup(heap, op.this, op.path) = op.is
                /\ \A k \in DOMAIN heap0[op.this].props \ {op.path} :
                       Lookup(heap, op.this, k) = Lookup(heap0, op.this, k)
                /\ \A id \in DOMAIN heap0 \ {op.this} : heap[id] = heap0[id]
                /\ Len(heap) = Len(heap0)
                /\ notified # <<>>
                      <=> (FastPrevious.t = "nan" \/ FastPrevious # op.is)
                /\ notified # <<>>
                      => notified = <<Observers(op.this, op.path,
                                               FastPrevious, op.is)>>

\* a write on a computed property that changed nothing
C18_Witness ==
    /\ op.kind = "fast"
    /\ DeclaredComputed
    /\ Lookup(heap0, op.this, op.path) = Num(5)
    /\ op.is = Num(7)
    /\ Lookup(heap, op.this, op.path) = Num(5)
    /\ notified = <<>>

\* a write of 7 over 7 that notified, the accessor answering 5
C18_WitnessGetter ==
    /\ op.kind = "fast"
    /\ ~DeclaredComputed
    /\ Lookup(heap0, op.this, op.path) = Num(7)
    /\ op.is = Num(7)
    /\ FastPrevious = Num(5)
    /\ Len(notified) = 1
    /\ notified[1].was = Num(5)

\* ------------------------------------------------------------------------
\* Properties of bind and bindSafely
\* ------------------------------------------------------------------------

\* the scope the method is looked up in: bind puts the global object in the
\* place of a falsy scope
ScopeUsed ==
    IF ccall.name = "bind" /\ ~Truthy(ccall.scope) THEN Ref(GlobalId)
    ELSE ccall.scope

\* x is a function, or the name of a property of the scope holding one
UsableMethod(x, scope) ==
    \/ IsFunction(x)
    \/ /\ IsString(x)
       /\ IsObj(scope)
       /\ NameKey(x.v) \in DOMAIN heap[scope.v].props
       /\ IsFunction(heap[scope.v].props[NameKey(x.v)])

\* the call threw and returned no function
ThrewNoFunction == cthrew /\ cret = Undef

\* C19 as stated: bind and bindSafely throw, returning no function, whenever
\* the method argument is neither a function nor the name of a property of
\* the scope that holds a function.
C19_Original ==
    (/\ ccall.name \in {"bind", "bindSafely"}
     /\ ~UsableMethod(ccall.method, ScopeUsed))
    => ThrewNoFunction

\* C19: bindSafely throws, returning no function, whenever the method
\* argument is neither a function nor the name of a property of the scope
\* that holds a function, and so does bind when the method argument is
\* truthy; with a falsy method argument bind takes its first argument for
\* the method and the global object for the scope, and throws exactly when
\* the first argument is neither a function nor the name of a property of
\* the global object that holds a function.
C19_Throws ==
    /\ (/\ ccall.name \in {"bind", "bindSafely"}
        /\ ccall.name = "bind" => Truthy(ccall.method)
        /\ ~UsableMethod(ccall.method, ScopeUsed))
          => ThrewNoFunction
    /\ (ccall.name = "bind" /\ ~Truthy(ccall.method))
          => /\ ~UsableMethod(ccall.scope, Ref(GlobalId)) <=> ThrewNoFunction
             /\ ~cthrew => /\ IsFunction(cret)
                            /\ bound[cret.v].scope = Ref(GlobalId)

\* bindSafely(scope, 'b') threw, scope.b being the number 5
C19_Witness ==
    /\ ccall.name = "bindSafely"
    /\ ccall.scope = Ref(RootId)
    /\ ccall.method = Str(2)
    /\ Lookup(heap, RootId, B) = Num(5)
    /\ ThrewNoFunction

\* bind(scope, 'c') threw, scope having no c
C19_WitnessBind ==
    /\ ccall.name = "bind"
    /\ ccall.scope = Ref(RootId)
    /\ ccall.method = Str(3)
    /\ ThrewNoFunction

\* the function called and what its scope holds under destroyed
Called == bound[ccall.fn]
ScopeDestroyed ==
    IF IsObj(Called.scope) /\ DestroyedKey \in DOMAIN heap[Called.scope.v].props
        THEN heap[Called.scope.v].props[DestroyedKey]
    ELSE Undef

\* C20: a function returned by bindSafely, called while scope.destroyed is
\* truthy, does not apply the method and returns undefined, whether or not
\* the scope was destroyed when the function was made; called while
\* scope.destroyed is falsy it applies the method once, on the scope, to the
\* bound arguments followed by the arguments of the call.
C20_SafeCall ==
    (/\ ccall.name = "call"
     /\ Called.safe
     /\ ~Nullish(Called.scope))
    => /\ ~cthrew
       /\ Truthy(ScopeDestroyed) => (invoked = <<>> /\ cret = Undef)
       /\ ~Truthy(ScopeDestroyed)
             => /\ invoked = <<Applied(Called.method, Called.scope,
                                       Called.args \o ccall.args)>>
                /\ cret = ResultOf(Called.method)

\* a function made while the scope was not destroyed, called with an
\* argument after the scope was destroyed: the method was not applied
C20_Witness ==
    /\ ccall.name = "call"
    /\ Called.safe
    /\ Called.scope = Ref(RootId)
    /\ ~Called.wasDestroyed
    /\ Truthy(ScopeDestroyed)
    /\ ccall.args = <<Num(5)>>
    /\ invoked = <<>>
    /\ cret = Undef

\* a function bound to the argument 5, called with the argument 5 while the
\* scope was not destroyed
C20_WitnessLive ==
    /\ ccall.name = "call"
    /\ Called.safe
    /\ Called.scope = Ref(RootId)
    /\ ~Truthy(ScopeDestroyed)
    /\ Called.args = <<Num(5)>>
    /\ ccall.args = <<Num(5)>>
    /\ Len(invoked) = 1
    /\ invoked[1].args = <<Num(5), Num(5)>>

\* the Bindings that existed before the step with an owner
Owned == {b \in 1..Len(bnds) : bnds[b].owner # 0}

\* the assignments to the owner reference of b that the call just made
WritesTo(b) == {i \in 1..Len(writes') : writes'[i].b = b}

C21_WitnessForeign ==
    /\ bcall.name = "removeBinding"
    /\ ~threw
    /\ before.bowner \notin {0, bcall.o}
    /\ writes = <<>>
    /\ bnds[bcall.b].owner = before.bowner

\* C22 as stated: any two calls of enyo.uid, whatever their prefixes,
\* returned different strings.
C22_Unique ==
    \A i, j \in 1..Len(uids) : i # j => uids[i] # uids[j]

\* the instances destroy() was called on, and those the registry holds
DestroyedInsts == {i \in 1..Len(insts) : insts[i].name = NullName}
Registered == {sources[k].inst : k \in 1..Len(sources)} \ {0}

\* C23 as stated: an instance destroy() was called on is under no key of the
\* registry, and an execute with source === true ends without error, having
\* called the action once on every registered instance that implements it and
\* on no destroyed one.
C23_Original ==
    /\ DestroyedInsts \cap Registered = {}
    /\ scall.name = "execute"
          => /\ ~sthrew
             /\ {dispatched[k].inst : k \in 1..Len(dispatched)}
                   = {i \in Registered : scall.action \in insts[i].impl}
             /\ \A k \in 1..Len(dispatched) :
                   dispatched[k].inst \notin DestroyedInsts

\* the segments of the path of the call, the path without its last segment
\* and the node getPath reaches for it
PathSegs == Split(StripDots(op.path))
ParentPath == Join(SubSeq(PathSegs, 1, Len(PathSegs) - 1))
ParentNode == GetPath(heap0, op.this, ParentPath)

\* the call made none of the missing objects: every intermediate segment
\* was there
NothingMade == \A i \in 1..Len(assigned) : assigned[i].kind # "create"

\* C24 as stated: when every intermediate segment exists and setPath itself
\* stores the value, it assigns the last segment on the node that getPath
\* reaches for the path without its last segment.
C24_Original ==
    (/\ op.kind = "set"
     /\ WellFormed(StripDots(op.path))
     /\ Len(PathSegs) >= 2
     /\ IsObj(ParentNode)
     /\ NothingMade
     /\ setCalls = <<>>)
    => /\ Wrote
       /\ Last(assigned).on = ParentNode
       /\ Last(assigned).part = PathSegs[Len(PathSegs)]

\* what getPath, called on the same receiver, reads for the written segment
\* on the written node before the write
GetPathWas ==
    GetStep(heap0, op.this, Last(assigned).on, Last(assigned).part)

\* C25 as stated, for a written node without a get of its own: the old value
\* handed to notify is what getPath would have read for the segment on the
\* node before the write, and without force and comparator the hook is
\* called exactly when that value !== the new one.
C25_Original ==
    (/\ WroteObserved
     /\ WellFormed(StripDots(op.path))
     /\ heap0[Last(assigned).on.v].get # "own")
    => /\ \A i \in 1..Len(notified) : notified[i].was = GetPathWas
       /\ op.opts = NoOpts
             => (Len(notified) = 1 <=> ~StrictEq(GetPathWas, op.is))

\* no object of the graph has a getter mapping, a get or a set
NoOverrides == \A id \in DOMAIN heap0 : IsPlain(heap0[id])

\* a write with default options along a path of non-empty segments, on a
\* graph without accessor overrides
PlainWrite ==
    /\ op.kind = "set"
    /\ op.opts = NoOpts
    /\ WellFormed(op.path)
    /\ NoOverrides

\* an intermediate segment of the path held a truthy value that is no
\* object: a number other than 0, a non-empty string or true
ThroughPrimitive ==
    \E k \in 1..(Len(Split(op.path)) - 1) :
        LET v == GetPath(heap0, op.this, Join(SubSeq(Split(op.path), 1, k)))
        IN Truthy(v) /\ ~IsObj(v)

C26_WitnessPrimitive ==
    /\ PlainWrite
    /\ op.this = RootId
    /\ op.path = <<"a", Dot, "b">>
    /\ op.is = Num(7)
    /\ Lookup(heap0, RootId, A) = Num(5)
    /\ Lookup(heap, RootId, A) = Num(5)
    /\ GetPath(heap, RootId, op.path) = Undef

\* every element of a list is a raw declaration, or every one a Binding
AllRaw(list) == \A i \in 1..Len(list) : list[i].t = "raw"
AllBnd(list) == \A i \in 1..Len(list) : list[i].t = "bnd"

\* C27: the list an owner reads as this.bindings holds raw declarations only
\* while _bindingSupportInitialized is false and Binding instances only
\* once it is true; it never holds both.
C27_OneRepresentation ==
    \A o \in Owners :
        /\ ~owners[o].initialized => AllRaw(ListOf(o))
        /\ owners[o].initialized => AllBnd(ListOf(o))

\* constructed() has just turned a queue of two declarations into two
\* Bindings, while the other owner still holds a queue
C27_Witness ==
    /\ bcall.name = "constructed"
    /\ Len(before.list) = 2
    /\ AllRaw(before.list)
    /\ Len(ListOf(bcall.o)) = 2
    /\ AllBnd(ListOf(bcall.o))
    /\ \E p \in Owners \ {bcall.o} :
          ~owners[p].initialized /\ Len(ListOf(p)) > 0

\* C28 as stated: destroy() on an owner that was never activated and whose
\* list held raw declarations ends without an error and leaves the list
\* null.
C28_Original ==
    (/\ bcall.name = "destroy"
     /\ ~before.initialized
     /\ Len(before.list) > 0)
    => /\ ~threw
       /\ owners[bcall.o].bindings = NullList

\* what owner o reads as this.bindings, given the owners and the prototype
ListIn(os, pr, o) ==
    LET S == BState(os, pr, <<>>, <<>>, <<>>, FALSE)
    IN ArrayAt(S, ReadBindings(S, o))

\* C29 as stated: binding() on an owner that is not yet live leaves the list
\* of the kind's prototype, and what every other owner reads as its list,
\* as they were.
C29_Original ==
    [][(bcall'.name = "binding" /\ ~owners[bcall'.o].initialized)
          => /\ proto' = proto
             /\ \A p \in Owners \ {bcall'.o} :
                   ListIn(owners', proto', p) = ListIn(owners, proto, p)]_vars

\* the live Bindings in the list of owner o
LiveIn(o) ==
    {ListOf(o)[i].id : i \in {j \in 1..Len(ListOf(o)) :
                                  /\ ListOf(o)[j].t = "bnd"
                                  /\ bnds[ListOf(o)[j].id].live}}

\* C30 as stated: every live Binding in the list of an owner has that owner
\* as its owner reference.
C30_Original ==
    \A o \in Owners : \A b \in LiveIn(o) : bnds[b].owner = o

====
